---- MODULE Spec2Model ----
(***************************************************************************)
(* TrailMapper: the route optimizer (js/route-optimizer.js), the route     *)
(* editor handlers that call it, and the image calibration of the point    *)
(* overlay, as state machines.                                             *)
(*                                                                         *)
(* Numbers.  JavaScript numbers are modelled by integers; NaN, Infinity    *)
(* and undefined are values outside the range any modelled finite quantity *)
(* takes.                                                                  *)
(*                                                                         *)
(* Route optimizer.  All modelled geographic points lie on one meridian    *)
(* (they share one longitude), where the haversine formula of              *)
(* calculateDistance reduces to R * |lat2 - lat1| * pi / 180; distances    *)
(* are counted in that unit, one unit per latitude step.                   *)
(*                                                                         *)
(* Calibration.  Positions are integer grid steps of latitude and          *)
(* longitude in a region small enough that one image pixel at scale 1      *)
(* spans one step in both directions; a distance is the integer part of    *)
(* the Euclidean distance in steps, a quotient the integer part of the     *)
(* quotient.                                                               *)
(***************************************************************************)
EXTENDS Integers, Sequences, FiniteSets, TLC

\* ------------------------------------------------------------------ bounds
\* Most waypoints a route holds when a handler starts.
MaxWp == 3
\* Most matched pairs a calibration is started with.
MaxPairs == 2
\* The iterations of optimizeImageParameters (50 in the source).
Iterations == 2

\* ------------------------------------------------------- JavaScript values
NaN == 0 - 1000001
Undefined == 0 - 1000002
\* Infinity: greater than every finite number.
Infinity == 1000 * 1000
\* null: a value equal to no object and no position.
Null == [isNull |-> TRUE]

\* a || b on numbers and undefined: 0, NaN and undefined are falsy.
JsOr(a, b) == IF a = 0 \/ a = NaN \/ a = Undefined THEN b ELSE a

\* ToNumber: undefined becomes NaN in arithmetic.
ToNumber(v) == IF v = Undefined THEN NaN ELSE v

\* a < b as JavaScript compares numbers: false when either side is NaN.
JsLess(a, b) == a # NaN /\ b # NaN /\ a < b

\* a <= b as JavaScript compares numbers.
JsLessEq(a, b) == a # NaN /\ b # NaN /\ a <= b

\* a == b on numbers: false when either side is NaN.
JsEquals(a, b) == a # NaN /\ b # NaN /\ a = b

\* a + b on numbers.
JsAdd(a, b) ==
    IF a = NaN \/ b = NaN THEN NaN
    ELSE IF a = Infinity \/ b = Infinity THEN Infinity
    ELSE a + b

Abs(n) == IF n < 0 THEN 0 - n ELSE n

\* ------------------------------------------------------------ the data
\* Object identities, handed out in order: a handler's input waypoints first,
\* then every object a handler creates.
ObjIds == 1..(3 * (MaxWp + 1))

\* A waypoint object as stored in a route: no lat, lng.
Waypoint(idx, x, y) ==
    [index |-> idx, imageX |-> x, imageY |-> y,
     lat |-> Undefined, lng |-> Undefined,
     latitude |-> Undefined, longitude |-> Undefined]

\* The point getGpsPointByName returns: latitude and longitude, no lat, lng.
GpsPoint(la, lo) ==
    [index |-> Undefined, imageX |-> Undefined, imageY |-> Undefined,
     lat |-> Undefined, lng |-> Undefined,
     latitude |-> la, longitude |-> lo]

\* The image element's naturalWidth and naturalHeight.
ImageWidth == 2
ImageHeight == 4

\* overlay.getBounds(): one latitude step on every pixel row, the bottom edge on
\* the equator, and the meridian of all modelled points on pixel column 1.
Bounds == [north |-> ImageHeight, south |-> 0, west |-> 134, east |-> 136]

\* The pixel columns and rows waypoints are placed on.
Columns == {1}
Rows == 0..ImageHeight

\* The latitudes of the GPS points a route starts and ends at (on the meridian).
StartLats == {0, 3}
EndLats == {5}
GpsLng == (Bounds.west + Bounds.east) \div 2

VARIABLES
    selected,        \* RouteEditor.getSelectedRoute() finds a route
    startPoint,      \* getGpsPointByName(startPointName): a point or Null
    endPoint,        \* getGpsPointByName(endPointName): a point or Null
    overlayLoaded,   \* imageOverlay.imageOverlay exists with a non-empty image
    input,           \* the route's waypoints when the handler starts (values)
    heap,            \* object identity -> fields (Null: not allocated)
    arr,             \* the arrays: name -> sequence of object identities
    routeRef,        \* the array routeData.wayPoint refers to
    remainingRef,    \* the array the optimizer's `remaining` refers to
    orderRef,        \* the array the optimizer's `optimizedOrder` refers to
    currentPoint,    \* optimizeWaypointOrder's currentPoint (fields)
    pc,              \* the position of the running handler
    handler,         \* which handler ran: "none", "optimize", "draw", "add"
    thrown,          \* the callee (optimizer, waypoint manager) threw an Error
    escaped,         \* an exception left the RouteEditor handler
    message,         \* the message box the handler showed: "none", "error", "warning"
    routeLines,      \* RouteOptimizer.routeLines: the polylines drawn, each a
                     \* sequence of positions [lat, lng]
    originalDistance,
    optimizedDistance,
    \* --- the calibration (PointOverlay, ImageOverlay) ---
    matchedPairs,      \* the pairs autoAdjustImageToGPS finds: pixel and GPS position
    currentScale,      \* ImageOverlay.currentScale
    centerMarker,      \* the position of ImageOverlay.centerMarker
    imageBounds,       \* the bounds of the image layer
    calPc,             \* where autoAdjustImageToGPS stands
    iter,              \* iter of optimizeImageParameters
    candidate,         \* the place in the 3 x 3 loops of the iteration, 0..8
    iterationCenter,   \* (bestCenterLat, bestCenterLng) when this iteration began
    bestCenterLat,
    bestCenterLng,
    bestScale,
    bestError,
    result,            \* what optimizeImageParameters returned
    calMessage,        \* the error showErrorMessage showed, "none" without one
    \* --- functions applied on their own ---
    args,              \* the values the functions are applied to
    calls,           \* the names of the functions applied, in order
    values,            \* what each of them returned
    \* --- the editing of the selected route (RouteEditor, RouteWaypointManager) ---
    selectedActionButton,  \* RouteEditor.selectedActionButton; "none" for null
    waypointMarkers,       \* RouteWaypointManager.waypointMarkers
    lastDrop               \* the pixel position the dragend just handled wrote
                           \* to its waypoint; Null after every other event

routeVars == <<selected, startPoint, endPoint, overlayLoaded, input, heap, arr, routeRef,
               remainingRef, orderRef, currentPoint, pc, handler, thrown, escaped, message,
               routeLines, originalDistance, optimizedDistance>>

calVars == <<matchedPairs, currentScale, centerMarker, imageBounds, calPc, iter, candidate,
             iterationCenter,
             bestCenterLat, bestCenterLng, bestScale, bestError, result, calMessage>>

fnVars == <<args, calls, values>>

editVars == <<selectedActionButton, waypointMarkers, lastDrop>>

vars == <<routeVars, calVars, fnVars, editVars>>

\* No route on the map and no action chosen.
EditIdle ==
    /\ selectedActionButton = "none"
    /\ waypointMarkers = <<>>
    /\ lastDrop = Null

\* No function applied on its own.
FnIdle ==
    /\ args = Null
    /\ calls = <<>>
    /\ values = <<>>

\* ------------------------------------------------- coordinate conversion
\* RouteWaypointManager.convertImageToMapCoordinates: null without a loaded
\* overlay, else the position interpolated in the overlay's bounds.
ConvertImageToMapCoordinates(loaded, imageX, imageY) ==
    IF ~loaded THEN Null
    ELSE IF imageX = Undefined \/ imageY = Undefined THEN [lat |-> NaN, lng |-> NaN]
    ELSE [lat |-> Bounds.north - ((Bounds.north - Bounds.south) * imageY) \div ImageHeight,
          lng |-> Bounds.west + ((Bounds.east - Bounds.west) * imageX) \div ImageWidth]

\* RouteWaypointManager.convertMapToImageCoordinates: the inverse interpolation.
ConvertMapToImageCoordinates(loaded, lat, lng) ==
    IF ~loaded THEN Null
    ELSE [x |-> ((lng - Bounds.west) * ImageWidth) \div (Bounds.east - Bounds.west),
          y |-> ((Bounds.north - lat) * ImageHeight) \div (Bounds.north - Bounds.south)]

\* ---------------------------------------------------------- the optimizer
\* RouteOptimizer.calculateDistance.
CalculateDistance(point1, point2) ==
    LET lat1 == ToNumber(JsOr(point1.lat, point1.latitude))
        lng1 == ToNumber(JsOr(point1.lng, point1.longitude))
        lat2 == ToNumber(JsOr(point2.lat, point2.latitude))
        lng2 == ToNumber(JsOr(point2.lng, point2.longitude))
    IN IF lat1 = NaN \/ lng1 = NaN \/ lat2 = NaN \/ lng2 = NaN THEN NaN
       ELSE Abs(lat2 - lat1)

\* The for loop with the comparison turned round: the farthest is taken.
RECURSIVE ScanFarthest(_, _, _, _, _)
ScanFarthest(cur, points, i, nearestIndex, nearestDistance) ==
    IF i > Len(points) THEN nearestIndex
    ELSE LET distance == CalculateDistance(cur, points[i])
         IN IF JsLess(nearestDistance, distance)
            THEN ScanFarthest(cur, points, i + 1, i, distance)
            ELSE ScanFarthest(cur, points, i + 1, nearestIndex, nearestDistance)

\* The for loop replacing on <= : of equally near waypoints the last is taken.
RECURSIVE ScanNearestOrEqual(_, _, _, _, _)
ScanNearestOrEqual(cur, points, i, nearestIndex, nearestDistance) ==
    IF i > Len(points) THEN nearestIndex
    ELSE LET distance == CalculateDistance(cur, points[i])
         IN IF JsLessEq(distance, nearestDistance)
            THEN ScanNearestOrEqual(cur, points, i + 1, i, distance)
            ELSE ScanNearestOrEqual(cur, points, i + 1, nearestIndex, nearestDistance)

\* The for loop of optimizeWaypointOrder from index i on: (nearestIndex,
\* nearestDistance) replaced only by a strictly smaller distance.
RECURSIVE ScanNearest(_, _, _, _, _)
ScanNearest(cur, points, i, nearestIndex, nearestDistance) ==
    IF i > Len(points) THEN nearestIndex
    ELSE LET distance == CalculateDistance(cur, points[i])
         IN IF JsLess(distance, nearestDistance)
            THEN ScanNearest(cur, points, i + 1, i, distance)
            ELSE ScanNearest(cur, points, i + 1, nearestIndex, nearestDistance)

\* One pass of the while loop: the position in `points` (1-based) of the
\* waypoint it takes.
NearestIndex(cur, points) ==
    ScanNearest(cur, points, 2, 1, CalculateDistance(cur, points[1]))

\* Array.prototype.splice(i, 1): the array without its i-th element.
Splice(s, i) == SubSeq(s, 1, i - 1) \o SubSeq(s, i + 1, Len(s))

\* RouteOptimizer.calculateTotalDistance over point values.
RECURSIVE SumLegs(_, _, _)
SumLegs(cur, points, endP) ==
    IF points = <<>> THEN CalculateDistance(cur, endP)
    ELSE JsAdd(CalculateDistance(cur, Head(points)), SumLegs(Head(points), Tail(points), endP))

CalculateTotalDistance(startP, endP, points) ==
    IF Len(points) = 0 THEN CalculateDistance(startP, endP)
    ELSE SumLegs(startP, points, endP)

\* --------------------------------------------- objects and arrays (heap)
\* The next object identity `new` hands out.
NextId(h) == Cardinality({i \in ObjIds : h[i] # Null}) + 1

\* The fields of the objects an array holds, in the array's order.
Fields(h, ids) == [k \in 1..Len(ids) |-> h[ids[k]]]

\* waypoint.lat = ...; waypoint.lng = ...; push(waypoint): the route's own
\* object written to and pushed, no copy made.
AssignPositionInPlace(h, id, mapPosition) ==
    [heap |-> [h EXCEPT ![id] = [h[id] EXCEPT !.lat = mapPosition.lat,
                                               !.lng = mapPosition.lng]],
     id |-> id]

\* { ...waypoint, lat: mapPosition[0], lng: mapPosition[1] }: a new object.
\* Gives the heap after it and the identity pushed to waypointCoords.
SpreadWithPosition(h, id, mapPosition) ==
    LET nid == NextId(h)
    IN [heap |-> [h EXCEPT ![nid] = [h[id] EXCEPT !.lat = mapPosition.lat,
                                                   !.lng = mapPosition.lng]],
        id |-> nid]

\* The loop of optimizeRoute that fills waypointCoords: a waypoint whose
\* conversion gives null is left out.
RECURSIVE BuildWaypointCoords(_, _, _, _)
BuildWaypointCoords(h, ids, loaded, coords) ==
    IF ids = <<>> THEN [heap |-> h, coords |-> coords]
    ELSE LET w == h[Head(ids)]
             mapPosition == ConvertImageToMapCoordinates(loaded, w.imageX, w.imageY)
         IN IF mapPosition = Null
            THEN BuildWaypointCoords(h, Tail(ids), loaded, coords)
            ELSE LET c == SpreadWithPosition(h, Head(ids), mapPosition)
                 IN BuildWaypointCoords(c.heap, Tail(ids), loaded, Append(coords, c.id))

\* [...waypoints]: the name of the array that holds the copy (a new array).
SpreadArray(source, fresh) == fresh

\* The while loop of optimizeWaypointOrder run to its end: the order it builds.
RECURSIVE GreedyOrder(_, _, _)
GreedyOrder(h, cur, remaining) ==
    IF remaining = <<>> THEN <<>>
    ELSE LET i == NearestIndex(cur, Fields(h, remaining))
         IN <<remaining[i]>> \o GreedyOrder(h, h[remaining[i]], Splice(remaining, i))

\* RouteOptimizer.optimizeWaypointOrder on an array of objects.
OptimizeWaypointOrder(h, startP, endP, waypoints) ==
    IF Len(waypoints) <= 1 THEN waypoints
    ELSE GreedyOrder(h, startP, waypoints)

\* forEach((waypoint, index) => waypoint.index = index): indexes from 0.
AssignIndexesFromZero(h, order) ==
    [i \in ObjIds |->
        IF \E k \in 1..Len(order) : order[k] = i
        THEN [h[i] EXCEPT !.index = (CHOOSE k \in 1..Len(order) :
                                        order[k] = i /\ \A j \in (k + 1)..Len(order) : order[j] # i) - 1]
        ELSE h[i]]

\* optimizedOrder.forEach((waypoint, index) => waypoint.index = index + 1).
AssignIndexes(h, order) ==
    [i \in ObjIds |->
        IF \E k \in 1..Len(order) : order[k] = i
        THEN [h[i] EXCEPT !.index = CHOOSE k \in 1..Len(order) :
                                        order[k] = i /\ \A j \in (k + 1)..Len(order) : order[j] # i]
        ELSE h[i]]

\* RouteOptimizer.optimizeRoute as one call, past its guards: the heap after
\* it and the array it returns.
OptimizeRouteCall(h, ids, startP, endP, loaded) ==
    LET b == BuildWaypointCoords(h, ids, loaded, <<>>)
        order == OptimizeWaypointOrder(b.heap, startP, endP, b.coords)
    IN [heap |-> AssignIndexes(b.heap, order), order |-> order]

\* The guards without the check of the number of waypoints.
OptimizeRouteErrorNoCount(startP, endP, ids) ==
    IF startP = Null \/ endP = Null THEN "pointNotFound" ELSE "none"

\* The guards of RouteOptimizer.optimizeRoute: the Error it throws, or "none".
OptimizeRouteError(startP, endP, ids) ==
    IF startP = Null \/ endP = Null THEN "pointNotFound"
    ELSE IF Len(ids) = 0 THEN "noWaypoints"
    ELSE "none"

\* [...wayPoints].sort((a, b) => (a.index || 0) - (b.index || 0)): a stable
\* sort; Insert puts x behind every element whose key is not greater.
SortKey(h, id) == JsOr(h[id].index, 0)

RECURSIVE InsertByIndex(_, _, _)
InsertByIndex(h, sorted, x) ==
    IF sorted = <<>> THEN <<x>>
    ELSE IF SortKey(h, Head(sorted)) <= SortKey(h, x)
         THEN <<Head(sorted)>> \o InsertByIndex(h, Tail(sorted), x)
         ELSE <<x>> \o sorted

RECURSIVE SortByIndex(_, _, _)
SortByIndex(h, ids, sorted) ==
    IF ids = <<>> THEN sorted
    ELSE SortByIndex(h, Tail(ids), InsertByIndex(h, sorted, Head(ids)))

\* The positions drawRouteSegments collects for the waypoints: those whose
\* conversion is not null, in index order.
RECURSIVE ConvertedPositions(_, _, _)
ConvertedPositions(h, ids, loaded) ==
    IF ids = <<>> THEN <<>>
    ELSE LET mapPosition == ConvertImageToMapCoordinates(loaded, h[Head(ids)].imageX,
                                                         h[Head(ids)].imageY)
         IN (IF mapPosition = Null THEN <<>> ELSE <<mapPosition>>)
            \o ConvertedPositions(h, Tail(ids), loaded)

\* RouteOptimizer.drawRouteSegments past the route check: the Error it throws
\* ("none": it returns) and routeLines after it.
DrawRouteSegmentsCall(h, ids, startP, endP, loaded) ==
    IF startP = Null \/ endP = Null
    THEN [error |-> "pointNotFound", routeLines |-> <<>>]
    ELSE [error |-> "none",
          routeLines |-> << <<[lat |-> startP.latitude, lng |-> startP.longitude]>>
                            \o ConvertedPositions(h, SortByIndex(h, ids, <<>>), loaded)
                            \o <<[lat |-> endP.latitude, lng |-> endP.longitude]>> >>]

\* A handler without a catch block: the Error leaves the handler.
NoCatch(error) == [escaped |-> TRUE, message |-> "none"]

\* ------------------------------------------------ the RouteEditor handlers
\* The catch block of a RouteEditor handler (optimizeRoute, drawRouteSegments,
\* onMapClick): the Error is shown in a message box and goes no further.
CatchAndShow(error) ==
    [escaped |-> FALSE,
     message |-> IF error = "noWaypoints" THEN "warning" ELSE "error"]

\* RouteEditor.optimizeAndDrawRouteAutomatic on the route array `ids`: with two
\* or more waypoints optimizeRoute and updateWaypointsInRoute, then
\* drawRouteSegments; an Error is logged and the drawing tried once more.
OptimizeAndDrawRouteAutomatic(h, ids, startP, endP, loaded) ==
    IF Len(ids) >= 2 /\ OptimizeRouteError(startP, endP, ids) = "none"
    THEN LET r == OptimizeRouteCall(h, ids, startP, endP, loaded)
         IN [heap |-> r.heap, route |-> r.order, replaced |-> TRUE,
             routeLines |-> DrawRouteSegmentsCall(r.heap, r.order, startP, endP, loaded).routeLines]
    ELSE [heap |-> h, route |-> ids, replaced |-> FALSE,
          routeLines |-> DrawRouteSegmentsCall(h, ids, startP, endP, loaded).routeLines]

\* RouteWaypointManager.checkGPSPointCollision reads gpsData.gpsPoints, a
\* property GPSData never sets.
GpsPointsProperty == Undefined

\* RouteWaypointManager.isNearGPSPoint.
IsNearGPSPoint(lat, lng) ==
    IF GpsPointsProperty = Undefined THEN FALSE ELSE TRUE

\* RouteWaypointManager.getNextWaypointIndex.
Max(S) == CHOOSE m \in S : \A x \in S : x <= m

GetNextWaypointIndex(h, ids) ==
    LET existingIndexes == {h[ids[k]].index : k \in 1..Len(ids)} \ {Undefined, NaN}
    IN IF Len(ids) = 0 \/ existingIndexes = {} THEN 1 ELSE Max(existingIndexes) + 1

\* ----------------------------------------------------------- calibration
\* isFinite.
IsFinite(v) == v # NaN /\ v # Infinity /\ v # Undefined

\* typeof v === 'number': true of NaN and Infinity too.
IsNumber(v) == v # Undefined

\* Math.max: NaN when an argument is NaN.
MathMax(a, b) == IF a = NaN \/ b = NaN THEN NaN ELSE IF a > b THEN a ELSE b

\* a * b on finite integers, NaN and Infinity.
JsMul(a, b) ==
    IF a = NaN \/ b = NaN THEN NaN
    ELSE IF a = Infinity \/ b = Infinity
         THEN (IF a = 0 \/ b = 0 THEN NaN ELSE Infinity)
    ELSE a * b

\* a / b for a >= 0 and b > 0 or non-finite: the integer part of the quotient.
JsDiv(a, b) ==
    IF a = NaN \/ b = NaN THEN NaN
    ELSE IF a = Infinity THEN (IF b = Infinity THEN NaN ELSE Infinity)
    ELSE IF b = Infinity THEN 0
    ELSE a \div b

\* Math.sqrt on a finite n >= 0: the integer part of the root.
Sqrt(n) == CHOOSE r \in 0..n : r * r <= n /\ (r + 1) * (r + 1) > n

\* DEFAULTS.IMAGE_OVERLAY_DEFAULT_SCALE, the scale a new overlay has.
DefaultScale == 2

\* The least scale calculateOptimalScale and estimateInitialScale return
\* (Math.max(..., 0.001)): the smallest positive scale of the model.
MinScale == 1

\* The centre of the image in pixels: (imageWidth / 2, imageHeight / 2).
ImageCenterX == ImageWidth \div 2
ImageCenterY == ImageHeight \div 2

\* mapCore.getInitialCenter(): where the centre marker is put at the start.
InitialCenter == [lat |-> 50, lng |-> 50]

\* A matched pair: jsonPoint.imageX / imageY and gpsPoint.lat / lng.
MatchedPair(x, y, la, lo) == [imageX |-> x, imageY |-> y, lat |-> la, lng |-> lo]

\* 156543.03392 * cos(centerLat * pi / 180) / 2 ^ zoom, and the division by
\* 1000: one step per pixel at every finite latitude of the region, NaN at
\* a latitude that is not finite.
MetersPerPixel(centerLat) == IF IsFinite(centerLat) THEN 1 ELSE NaN

\* PointOverlay.calculateDistance: NaN as soon as a coordinate is not finite
\* (the sine of an infinite angle is NaN).
PointCalculateDistance(lat1, lng1, lat2, lng2) ==
    IF IsFinite(lat1) /\ IsFinite(lng1) /\ IsFinite(lat2) /\ IsFinite(lng2)
    THEN Sqrt((lat2 - lat1) * (lat2 - lat1) + (lng2 - lng1) * (lng2 - lng1))
    ELSE NaN

\* PointOverlay.convertImageToMapCoords with a loaded image.
ConvertImageToMapCoords(imageX, imageY, centerLat, centerLng, scale) ==
    LET offsetX == imageX - ImageCenterX
        offsetY == imageY - ImageCenterY
        metersPerPixel == MetersPerPixel(centerLat)
    IN IF IsFinite(centerLat) /\ IsFinite(centerLng) /\ IsFinite(scale)
          /\ IsFinite(metersPerPixel)
       THEN [lat |-> centerLat - offsetY * scale * metersPerPixel,
             lng |-> centerLng + offsetX * scale * metersPerPixel]
       ELSE [lat |-> NaN, lng |-> NaN]

\* PointOverlay.calculateTotalError: the sum of the squared distances.
RECURSIVE CalculateTotalError(_, _, _, _)
CalculateTotalError(pairs, centerLat, centerLng, scale) ==
    IF pairs = <<>> THEN 0
    ELSE LET pair == Head(pairs)
             predictedCoords == ConvertImageToMapCoords(pair.imageX, pair.imageY,
                                                        centerLat, centerLng, scale)
             error == PointCalculateDistance(predictedCoords.lat, predictedCoords.lng,
                                             pair.lat, pair.lng)
         IN JsAdd(JsMul(error, error),
                  CalculateTotalError(Tail(pairs), centerLat, centerLng, scale))

\* The distance of a pair's pixel position from the centre of the image.
ImagePixelDistance(pair) ==
    Sqrt((pair.imageX - ImageCenterX) * (pair.imageX - ImageCenterX)
         + (pair.imageY - ImageCenterY) * (pair.imageY - ImageCenterY))

\* The sums of calculateOptimalScale over the pairs off the image centre.
RECURSIVE ScaleNumerator(_, _, _)
ScaleNumerator(pairs, centerLat, centerLng) ==
    IF pairs = <<>> THEN 0
    ELSE LET pair == Head(pairs)
             gpsDistance == PointCalculateDistance(centerLat, centerLng, pair.lat, pair.lng)
             imagePixelDistance == ImagePixelDistance(pair)
             rest == ScaleNumerator(Tail(pairs), centerLat, centerLng)
         IN IF imagePixelDistance > 0
            THEN JsAdd(JsDiv(JsMul(gpsDistance, imagePixelDistance * imagePixelDistance),
                             imagePixelDistance),
                       rest)
            ELSE rest

RECURSIVE ScaleDenominator(_)
ScaleDenominator(pairs) ==
    IF pairs = <<>> THEN 0
    ELSE LET imagePixelDistance == ImagePixelDistance(Head(pairs))
         IN (IF imagePixelDistance > 0 THEN imagePixelDistance * imagePixelDistance ELSE 0)
            + ScaleDenominator(Tail(pairs))

\* PointOverlay.calculateOptimalScale.
CalculateOptimalScale(pairs, centerLat, centerLng) ==
    LET numerator == ScaleNumerator(pairs, centerLat, centerLng)
        denominator == ScaleDenominator(pairs)
        kmPerPixel == IF denominator > 0 THEN JsDiv(numerator, denominator) ELSE 0
        optimalScale == JsDiv(kmPerPixel, MetersPerPixel(centerLat))
    IN MathMax(optimalScale, MinScale)

\* estimateInitialScale with Math.max applied to the degenerate case too: the
\* least scale instead of 0 for two pairs at one pixel position.
EstimateInitialScaleClamped(pairs, centerLat, centerLng) ==
    IF Len(pairs) < 2 THEN 0
    ELSE LET pair1 == pairs[1]
             pair2 == pairs[2]
             gpsDistance == PointCalculateDistance(pair1.lat, pair1.lng, pair2.lat, pair2.lng)
             imagePixelDistance ==
                 Sqrt((pair2.imageX - pair1.imageX) * (pair2.imageX - pair1.imageX)
                      + (pair2.imageY - pair1.imageY) * (pair2.imageY - pair1.imageY))
         IN IF imagePixelDistance = 0 THEN MinScale
            ELSE MathMax(JsDiv(JsDiv(gpsDistance, imagePixelDistance),
                               MetersPerPixel(centerLat)),
                         MinScale)

\* PointOverlay.estimateInitialScale.
EstimateInitialScale(pairs, centerLat, centerLng) ==
    IF Len(pairs) < 2 THEN 0
    ELSE LET pair1 == pairs[1]
             pair2 == pairs[2]
             gpsDistance == PointCalculateDistance(pair1.lat, pair1.lng, pair2.lat, pair2.lng)
             imagePixelDistance ==
                 Sqrt((pair2.imageX - pair1.imageX) * (pair2.imageX - pair1.imageX)
                      + (pair2.imageY - pair1.imageY) * (pair2.imageY - pair1.imageY))
         IN IF imagePixelDistance = 0 THEN 0
            ELSE MathMax(JsDiv(JsDiv(gpsDistance, imagePixelDistance),
                               MetersPerPixel(centerLat)),
                         MinScale)

\* matchedPairs.reduce((sum, pair) => sum + pair.gpsPoint.lat, 0) / length.
RECURSIVE SumOf(_)
SumOf(numbers) ==
    IF numbers = <<>> THEN 0 ELSE JsAdd(Head(numbers), SumOf(Tail(numbers)))

Mean(numbers) == JsDiv(SumOf(numbers), Len(numbers))

\* ImageOverlay.getCurrentScale: this.currentScale || the default.
GetCurrentScale(scale) == JsOr(scale, DefaultScale)

\* The estimate optimizeImageParameters starts from.
InitialEstimate(pairs, scale) ==
    LET centerLat == Mean([k \in 1..Len(pairs) |-> pairs[k].lat])
        centerLng == Mean([k \in 1..Len(pairs) |-> pairs[k].lng])
        initialScale == EstimateInitialScale(pairs, centerLat, centerLng)
        startScale == IF JsLess(0, initialScale) THEN initialScale
                      ELSE GetCurrentScale(scale)
    IN [centerLat |-> centerLat, centerLng |-> centerLng, scale |-> startScale,
        totalError |-> CalculateTotalError(pairs, centerLat, centerLng, startScale)]

\* if (matchedPairs.length < 1): one pair is let through.
FewerThanOnePair(n) == n < 1

\* if (matchedPairs.length < 2) in autoAdjustImageToGPS.
TooFewPairs(n) == n < 2

\* iter <= iterations: one iteration more.
LoopContinuesOnEqual(i) == i <= Iterations

\* The condition of the outer loop: iter < iterations.
LoopContinues(i) == i < Iterations

\* 0.0001 * 0.9 ^ iter: positive, smaller from iteration to iteration.
Step(i) == Iterations - i

\* [-step, 0, step] by its place 0..2 in the loop.
Delta(place, step) == (place - 1) * step

\* if (error <= bestError): a candidate of equal error replaces the best too.
ImprovesOrEqual(error, best) == JsLessEq(error, best)

\* if (error < bestError): the candidate replaces the best.
Improves(error, best) == JsLess(error, best)

\* optimizeImageParameters without the check at its end.
ResultUnchecked(centerLat, centerLng, scale) == TRUE

\* The check at the end of optimizeImageParameters.
ResultValid(centerLat, centerLng, scale) ==
    IsFinite(centerLat) /\ IsFinite(centerLng) /\ IsFinite(scale) /\ ~(scale <= 0)

\* ImageOverlay.updateImageDisplay: the bounds of the image layer around the
\* centre marker; unchanged when the centre or an offset is not finite.
UpdateImageDisplay(center, scale, bounds) ==
    LET latOffset == JsDiv(JsMul(ImageHeight, scale), 2)
        lngOffset == JsDiv(JsMul(ImageWidth, scale), 2)
    IN IF IsFinite(center.lat) /\ IsFinite(center.lng) /\ IsFinite(latOffset)
          /\ IsFinite(lngOffset)
       THEN [south |-> center.lat - latOffset, west |-> center.lng - lngOffset,
             north |-> center.lat + latOffset, east |-> center.lng + lngOffset]
       ELSE bounds

\* PointOverlay.applyImageAdjustment: the overlay after it, and whether it
\* showed the error message instead.
ApplyImageAdjustment(newCenterLat, newCenterLng, newScale, scale, center, bounds) ==
    IF ~IsFinite(newCenterLat) \/ ~IsFinite(newCenterLng) \/ ~IsFinite(newScale)
    THEN [failed |-> TRUE, currentScale |-> scale, centerMarker |-> center,
          imageBounds |-> bounds]
    ELSE [failed |-> FALSE, currentScale |-> newScale,
          centerMarker |-> [lat |-> newCenterLat, lng |-> newCenterLng],
          imageBounds |-> UpdateImageDisplay([lat |-> newCenterLat, lng |-> newCenterLng],
                                             GetCurrentScale(newScale), bounds)]

\* The pixel positions and GPS coordinates the matched pairs are drawn from.
\* A latitude may be Infinity: parseCoordinate rejects NaN only, and
\* parseFloat gives Infinity for a digit string beyond the range of a double.
PairPixels == {<<1, 0>>, <<1, 2>>, <<2, 4>>}
PairLats == {50, 53, Infinity}
PairLngs == {50, 52}
OverlayScales == {DefaultScale, 3}

\* The calibration at rest, as the route handlers see it.
CalIdle ==
    /\ matchedPairs = <<>>
    /\ currentScale = DefaultScale
    /\ centerMarker = InitialCenter
    /\ imageBounds = UpdateImageDisplay(InitialCenter, DefaultScale, Null)
    /\ calPc = "idle"
    /\ iter = 0
    /\ candidate = 0
    /\ iterationCenter = Null
    /\ bestCenterLat = Undefined
    /\ bestCenterLng = Undefined
    /\ bestScale = Undefined
    /\ bestError = Undefined
    /\ result = Null
    /\ calMessage = "none"

ArrayNames == {"route", "coords", "remaining", "order", "order2"}

IndexModes == {"dense", "reversed"}

\* The index a loaded waypoint carries at array position k of n.
InputIndex(mode, k, n) == IF mode = "dense" THEN k ELSE n + 1 - k

Init ==
    /\ CalIdle
    /\ FnIdle
    /\ EditIdle
    /\ selected \in BOOLEAN
    /\ overlayLoaded \in BOOLEAN
    /\ startPoint \in (IF selected THEN {GpsPoint(la, GpsLng) : la \in StartLats} ELSE {})
                          \cup {Null}
    /\ endPoint \in (IF selected THEN {GpsPoint(la, GpsLng) : la \in EndLats} ELSE {})
                        \cup {Null}
    /\ \E n \in 0..(IF selected THEN MaxWp ELSE 0) :
          \E rows \in [1..n -> Rows], cols \in [1..n -> Columns], mode \in IndexModes :
             input = [k \in 1..n |-> Waypoint(InputIndex(mode, k, n), cols[k], rows[k])]
    /\ heap = [i \in ObjIds |-> IF i <= Len(input) THEN input[i] ELSE Null]
    /\ arr = [a \in ArrayNames |-> IF a = "route" THEN [k \in 1..Len(input) |-> k] ELSE <<>>]
    /\ routeRef = "route"
    /\ remainingRef = "none"
    /\ orderRef = "none"
    /\ currentPoint = Null
    /\ pc = "idle"
    /\ handler = "none"
    /\ thrown = FALSE
    /\ escaped = FALSE
    /\ message = "none"
    /\ routeLines = <<>>
    /\ originalDistance = Undefined
    /\ optimizedDistance = Undefined

\* RouteEditor.optimizeRoute up to the while loop of optimizeWaypointOrder:
\* the route check, optimizeRoute's guards, waypointCoords, originalDistance
\* and the start of optimizeWaypointOrder.
OptimizeRouteBegin ==
    /\ pc = "idle"
    /\ handler' = "optimize"
    /\ UNCHANGED <<calVars, fnVars, editVars>>
    /\ UNCHANGED <<selected, startPoint, endPoint, overlayLoaded, input, routeRef,
                   routeLines, optimizedDistance>>
    /\ IF ~selected
       THEN /\ message' = "error"
            /\ pc' = "done"
            /\ UNCHANGED <<heap, arr, remainingRef, orderRef, currentPoint, thrown,
                           escaped, originalDistance>>
       ELSE LET error == OptimizeRouteError(startPoint, endPoint, arr[routeRef])
                b == BuildWaypointCoords(heap, arr[routeRef], overlayLoaded, <<>>)
            IN IF error # "none"
               THEN /\ thrown' = TRUE
                    /\ escaped' = CatchAndShow(error).escaped
                    /\ message' = CatchAndShow(error).message
                    /\ pc' = "done"
                    /\ UNCHANGED <<heap, arr, remainingRef, orderRef, currentPoint,
                                   originalDistance>>
               ELSE /\ heap' = b.heap
                    /\ originalDistance' =
                          CalculateTotalDistance(startPoint, endPoint, Fields(b.heap, b.coords))
                    /\ UNCHANGED <<thrown, escaped, message>>
                    /\ IF Len(b.coords) <= 1
                       THEN /\ orderRef' = SpreadArray("coords", "order")
                            /\ arr' = [[arr EXCEPT !["coords"] = b.coords]
                                          EXCEPT ![orderRef'] = b.coords]
                            /\ pc' = "index"
                            /\ UNCHANGED <<remainingRef, currentPoint>>
                       ELSE /\ orderRef' = "order"
                            /\ remainingRef' = SpreadArray("coords", "remaining")
                            /\ arr' = [[arr EXCEPT !["coords"] = b.coords]
                                          EXCEPT ![remainingRef'] = b.coords]
                            /\ currentPoint' = startPoint
                            /\ pc' = "loop"

\* One pass of the while loop of optimizeWaypointOrder: the nearest remaining
\* waypoint is spliced out, pushed to optimizedOrder and becomes currentPoint.
OptimizeStep ==
    /\ pc = "loop"
    /\ UNCHANGED <<calVars, fnVars, editVars>>
    /\ LET remaining == arr[remainingRef]
           nearestIndex == NearestIndex(currentPoint, Fields(heap, remaining))
           nearestWaypoint == remaining[nearestIndex]
       IN /\ arr' = [[arr EXCEPT ![remainingRef] = Splice(remaining, nearestIndex)]
                        EXCEPT ![orderRef] = Append(@, nearestWaypoint)]
          /\ currentPoint' = heap[nearestWaypoint]
          /\ pc' = IF Len(remaining) > 1 THEN "loop" ELSE "index"
    /\ UNCHANGED <<selected, startPoint, endPoint, overlayLoaded, input, heap, routeRef,
                   remainingRef, orderRef, handler, thrown, escaped, message, routeLines,
                   originalDistance, optimizedDistance>>

\* The end of RouteOptimizer.optimizeRoute: optimizedDistance, the indexes
\* 1..N, and the return of optimizedOrder.
OptimizeRouteReturn ==
    /\ pc = "index"
    /\ UNCHANGED <<calVars, fnVars, editVars>>
    /\ optimizedDistance' =
          CalculateTotalDistance(startPoint, endPoint, Fields(heap, arr[orderRef]))
    /\ heap' = AssignIndexes(heap, arr[orderRef])
    /\ pc' = "returned"
    /\ UNCHANGED <<selected, startPoint, endPoint, overlayLoaded, input, arr, routeRef,
                   remainingRef, orderRef, currentPoint, handler, thrown, escaped, message,
                   routeLines, originalDistance>>

\* The rest of RouteEditor.optimizeRoute: updateWaypointsInRoute with the
\* returned array, updateRouteDataAndDisplay (the automatic optimization and
\* drawing) and drawRouteSegments.
OptimizeRouteWriteBack ==
    /\ pc = "returned"
    /\ UNCHANGED <<calVars, fnVars, editVars>>
    /\ LET auto == OptimizeAndDrawRouteAutomatic(heap, arr[orderRef], startPoint, endPoint,
                                                 overlayLoaded)
           after == IF auto.replaced THEN auto.route ELSE arr[orderRef]
       IN /\ heap' = auto.heap
          /\ arr' = IF auto.replaced THEN [arr EXCEPT !["order2"] = auto.route] ELSE arr
          /\ routeRef' = IF auto.replaced THEN "order2" ELSE orderRef
          /\ routeLines' = DrawRouteSegmentsCall(auto.heap, after, startPoint, endPoint,
                                                 overlayLoaded).routeLines
    /\ pc' = "done"
    /\ UNCHANGED <<selected, startPoint, endPoint, overlayLoaded, input, remainingRef,
                   orderRef, currentPoint, handler, thrown, escaped, message,
                   originalDistance, optimizedDistance>>

\* RouteEditor.drawRouteSegments.
DrawRouteSegments ==
    /\ pc = "idle"
    /\ handler' = "draw"
    /\ UNCHANGED <<calVars, fnVars, editVars>>
    /\ pc' = "done"
    /\ UNCHANGED <<selected, startPoint, endPoint, overlayLoaded, input, heap, arr, routeRef,
                   remainingRef, orderRef, currentPoint, originalDistance, optimizedDistance>>
    /\ IF ~selected
       THEN /\ message' = "error"
            /\ UNCHANGED <<thrown, escaped, routeLines>>
       ELSE LET d == DrawRouteSegmentsCall(heap, arr[routeRef], startPoint, endPoint,
                                           overlayLoaded)
            IN /\ routeLines' = d.routeLines
               /\ IF d.error # "none"
                  THEN /\ thrown' = TRUE
                       /\ escaped' = CatchAndShow(d.error).escaped
                       /\ message' = CatchAndShow(d.error).message
                  ELSE UNCHANGED <<thrown, escaped, message>>

\* RouteEditor.onMapClick with the action 'add':
\* RouteWaypointManager.addWaypointToRoute at the clicked position and, when a
\* waypoint was pushed, updateRouteDataAndDisplay.
AddWaypoint ==
    /\ pc = "idle"
    /\ handler' = "add"
    /\ UNCHANGED <<calVars, fnVars, editVars>>
    /\ pc' = "done"
    /\ UNCHANGED <<selected, startPoint, endPoint, overlayLoaded, input, remainingRef,
                   orderRef, currentPoint, originalDistance, optimizedDistance>>
    /\ \E clickLat \in Rows :
         LET imageCoords == ConvertMapToImageCoordinates(overlayLoaded, clickLat, GpsLng)
         IN IF ~selected
            THEN /\ message' = "error"
                 /\ UNCHANGED <<heap, arr, routeRef, thrown, escaped, routeLines>>
            ELSE IF IsNearGPSPoint(clickLat, GpsLng)
            THEN UNCHANGED <<heap, arr, routeRef, thrown, escaped, message, routeLines>>
            ELSE IF imageCoords = Null
            THEN /\ thrown' = TRUE
                 /\ escaped' = CatchAndShow("conversionFailed").escaped
                 /\ message' = CatchAndShow("conversionFailed").message
                 /\ UNCHANGED <<heap, arr, routeRef, routeLines>>
            ELSE LET nid == NextId(heap)
                     newWaypoint == Waypoint(GetNextWaypointIndex(heap, arr[routeRef]),
                                             imageCoords.x, imageCoords.y)
                     pushedHeap == [heap EXCEPT ![nid] = newWaypoint]
                     pushed == Append(arr[routeRef], nid)
                     auto == OptimizeAndDrawRouteAutomatic(pushedHeap, pushed, startPoint,
                                                           endPoint, overlayLoaded)
                 IN /\ heap' = auto.heap
                    /\ arr' = IF auto.replaced
                              THEN [[arr EXCEPT ![routeRef] = pushed]
                                       EXCEPT !["order2"] = auto.route]
                              ELSE [arr EXCEPT ![routeRef] = pushed]
                    /\ routeRef' = IF auto.replaced THEN "order2" ELSE routeRef
                    /\ routeLines' = auto.routeLines
                    /\ UNCHANGED <<thrown, escaped, message>>

Next ==
    \/ OptimizeRouteBegin
    \/ OptimizeStep
    \/ OptimizeRouteReturn
    \/ OptimizeRouteWriteBack
    \/ DrawRouteSegments
    \/ AddWaypoint

Spec == Init /\ [][Next]_vars

\* ------------------------------------------- the calibration as a machine
\* The route editor at rest, as the calibration sees it.
RouteIdle ==
    /\ selected = FALSE
    /\ startPoint = Null
    /\ endPoint = Null
    /\ overlayLoaded = TRUE
    /\ input = <<>>
    /\ heap = [i \in ObjIds |-> Null]
    /\ arr = [a \in ArrayNames |-> <<>>]
    /\ routeRef = "route"
    /\ remainingRef = "none"
    /\ orderRef = "none"
    /\ currentPoint = Null
    /\ pc = "idle"
    /\ handler = "none"
    /\ thrown = FALSE
    /\ escaped = FALSE
    /\ message = "none"
    /\ routeLines = <<>>
    /\ originalDistance = Undefined
    /\ optimizedDistance = Undefined

CalInit ==
    /\ RouteIdle
    /\ FnIdle
    /\ EditIdle
    /\ \E n \in 0..MaxPairs :
          \E pixels \in [1..n -> PairPixels], lats \in [1..n -> PairLats],
             lngs \in [1..n -> PairLngs] :
             matchedPairs = [k \in 1..n |-> MatchedPair(pixels[k][1], pixels[k][2],
                                                        lats[k], lngs[k])]
    /\ currentScale \in OverlayScales
    /\ centerMarker = InitialCenter
    /\ imageBounds = UpdateImageDisplay(InitialCenter, currentScale, Null)
    /\ calPc = "idle"
    /\ iter = 0
    /\ candidate = 0
    /\ iterationCenter = Null
    /\ bestCenterLat = Undefined
    /\ bestCenterLng = Undefined
    /\ bestScale = Undefined
    /\ bestError = Undefined
    /\ result = Null
    /\ calMessage = "none"

\* PointOverlay.autoAdjustImageToGPS up to the loop of optimizeImageParameters:
\* with fewer than two matched pairs the error message and nothing else; else
\* calculateOptimalImageAdjustment and the initial estimate.
AutoAdjustImageToGPS ==
    /\ calPc = "idle"
    /\ UNCHANGED <<routeVars, fnVars, editVars>>
    /\ UNCHANGED <<matchedPairs, currentScale, centerMarker, imageBounds, result>>
    /\ IF TooFewPairs(Len(matchedPairs))
       THEN /\ calMessage' = "tooFewPairs"
            /\ calPc' = "done"
            /\ UNCHANGED <<iter, candidate, iterationCenter, bestCenterLat, bestCenterLng,
                           bestScale, bestError>>
       ELSE LET initial == InitialEstimate(matchedPairs, currentScale)
            IN /\ bestCenterLat' = initial.centerLat
               /\ bestCenterLng' = initial.centerLng
               /\ bestScale' = initial.scale
               /\ bestError' = initial.totalError
               /\ iter' = 0
               /\ candidate' = 0
               /\ iterationCenter' = [lat |-> initial.centerLat, lng |-> initial.centerLng]
               /\ calPc' = "search"
               /\ UNCHANGED calMessage

\* One pass of the inner loop of optimizeImageParameters: the candidate at
\* the best centre of this moment moved by (deltaLat, deltaLng), its optimal
\* scale and error, and the replacement of the best by it.
EvaluateCandidate ==
    /\ calPc = "search"
    /\ UNCHANGED <<routeVars, fnVars, editVars>>
    /\ UNCHANGED <<matchedPairs, currentScale, centerMarker, imageBounds, result, calMessage>>
    /\ LET testLat == JsAdd(bestCenterLat, Delta(candidate \div 3, Step(iter)))
           testLng == JsAdd(bestCenterLng, Delta(candidate % 3, Step(iter)))
           optimalScale == CalculateOptimalScale(matchedPairs, testLat, testLng)
           error == CalculateTotalError(matchedPairs, testLat, testLng, optimalScale)
       IN IF JsLess(0, optimalScale) /\ Improves(error, bestError)
          THEN /\ bestError' = error
               /\ bestCenterLat' = testLat
               /\ bestCenterLng' = testLng
               /\ bestScale' = optimalScale
          ELSE UNCHANGED <<bestError, bestCenterLat, bestCenterLng, bestScale>>
    /\ IF candidate < 8
       THEN candidate' = candidate + 1 /\ UNCHANGED <<iter, calPc, iterationCenter>>
       ELSE /\ candidate' = 0
            /\ iter' = iter + 1
            /\ iterationCenter' = [lat |-> bestCenterLat', lng |-> bestCenterLng']
            /\ calPc' = IF LoopContinues(iter + 1) THEN "search" ELSE "check"

\* The end of optimizeImageParameters and of calculateOptimalImageAdjustment:
\* null and the error message for a result that is not valid, else the result
\* and applyImageAdjustment with it.
FinishCalibration ==
    /\ calPc = "check"
    /\ calPc' = "done"
    /\ UNCHANGED <<routeVars, fnVars, editVars>>
    /\ UNCHANGED <<matchedPairs, iter, candidate, iterationCenter, bestCenterLat,
                   bestCenterLng, bestScale, bestError>>
    /\ IF ~ResultValid(bestCenterLat, bestCenterLng, bestScale)
       THEN /\ result' = Null
            /\ calMessage' = "optimizationFailed"
            /\ UNCHANGED <<currentScale, centerMarker, imageBounds>>
       ELSE LET applied == ApplyImageAdjustment(bestCenterLat, bestCenterLng, bestScale,
                                                currentScale, centerMarker, imageBounds)
            IN /\ result' = [centerLat |-> bestCenterLat, centerLng |-> bestCenterLng,
                              scale |-> bestScale, totalError |-> bestError]
               /\ calMessage' = IF applied.failed THEN "invalidParameters" ELSE "none"
               /\ currentScale' = applied.currentScale
               /\ centerMarker' = applied.centerMarker
               /\ imageBounds' = applied.imageBounds

CalNext ==
    \/ AutoAdjustImageToGPS
    \/ EvaluateCandidate
    \/ FinishCalibration

SpecCal == CalInit /\ [][CalNext]_vars

\* The calibration is one synchronous call: once autoAdjustImageToGPS is
\* invoked, the statement it stands at is executed, which moves it on in its
\* loops or makes it return.  A step of CalNext is such a move.
Moves ==
    /\ calPc # "done"
    /\ calPc' \in {"search", "check", "done"}
    /\ iter' \in {iter, iter + 1}
    /\ candidate' \in 0..8
    /\ <<calPc', iter', candidate'>> # <<calPc, iter, candidate>>

SpecCalFair == SpecCal /\ WF_<<calPc, iter, candidate>>(Moves)

\* ------------------------------- the calibration on pairs read off a frame
\* The number of matched pairs of a noise-free data set.
SyntheticPairs == 3

\* Pixel positions of such pairs: the corners of the image, the middles of
\* its upper and left edges, and its centre.
SyntheticPixels == {<<0, 0>>, <<ImageWidth, 0>>, <<0, ImageHeight>>,
                    <<ImageWidth, ImageHeight>>, <<ImageCenterX, 0>>,
                    <<0, ImageCenterY>>, <<ImageCenterX, ImageCenterY>>}

\* The frames the pairs are read off: a centre and a scale.
SyntheticFrames == [lat : {InitialCenter.lat}, lng : {InitialCenter.lng},
                    scale : {DefaultScale, 3 * DefaultScale}]

\* The pairs convertImageToMapCoords gives for the pixel positions under a
\* frame.
PairsOfFrame(frame, pixels) ==
    [k \in 1..Len(pixels) |->
        LET coords == ConvertImageToMapCoords(pixels[k][1], pixels[k][2],
                                              frame.lat, frame.lng, frame.scale)
        IN MatchedPair(pixels[k][1], pixels[k][2], coords.lat, coords.lng)]

\* The state before autoAdjustImageToGPS with the matched pairs of a frame
\* at distinct pixel positions.
SyntheticInit ==
    /\ RouteIdle
    /\ FnIdle
    /\ EditIdle
    /\ \E frame \in SyntheticFrames, pixels \in [1..SyntheticPairs -> SyntheticPixels] :
          /\ \A j, k \in 1..SyntheticPairs : j # k => pixels[j] # pixels[k]
          /\ matchedPairs = PairsOfFrame(frame, pixels)
    /\ currentScale \in OverlayScales
    /\ centerMarker = InitialCenter
    /\ imageBounds = UpdateImageDisplay(InitialCenter, currentScale, Null)
    /\ calPc = "idle"
    /\ iter = 0
    /\ candidate = 0
    /\ iterationCenter = Null
    /\ bestCenterLat = Undefined
    /\ bestCenterLng = Undefined
    /\ bestScale = Undefined
    /\ bestError = Undefined
    /\ result = Null
    /\ calMessage = "none"

SpecSynthetic == SyntheticInit /\ [][CalNext]_vars

\* ---------------------------------- the conversions for any image and bounds
\* a - b on numbers; Infinity stands for the infinity of either sign.
JsSub(a, b) ==
    IF a = NaN \/ b = NaN THEN NaN
    ELSE IF a = Infinity /\ b = Infinity THEN NaN
    ELSE IF a = Infinity \/ b = Infinity THEN Infinity
    ELSE a - b

\* factor * (part / whole) on finite numbers: the division by zero gives
\* NaN for 0 / 0 and an infinity otherwise, and 0 * Infinity is NaN.
Scaled(factor, part, whole) ==
    IF whole = 0 THEN (IF part = 0 \/ factor = 0 THEN NaN ELSE Infinity)
    ELSE (factor * part) \div whole

\* RouteWaypointManager.convertImageToMapCoordinates with an overlay and an
\* image element of the given natural size.
ConvertImageToMapCoordinatesIn(bounds, width, height, imageX, imageY) ==
    IF width = 0 \/ height = 0 THEN Null
    ELSE [lat |-> JsSub(bounds.north, Scaled(bounds.north - bounds.south, imageY, height)),
          lng |-> JsAdd(bounds.west, Scaled(bounds.east - bounds.west, imageX, width))]

\* convertMapToImageCoordinates measuring relativeY from the south edge.
ConvertMapToImageCoordinatesFromSouth(bounds, width, height, lat, lng) ==
    IF width = 0 \/ height = 0 THEN Null
    ELSE IF ~IsFinite(lat) \/ ~IsFinite(lng) THEN [x |-> NaN, y |-> NaN]
    ELSE [x |-> Scaled(width, lng - bounds.west, bounds.east - bounds.west),
          y |-> Scaled(height, lat - bounds.south, bounds.north - bounds.south)]

\* RouteWaypointManager.convertMapToImageCoordinates with an overlay and an
\* image element of the given natural size.
ConvertMapToImageCoordinatesIn(bounds, width, height, lat, lng) ==
    IF width = 0 \/ height = 0 THEN Null
    ELSE IF ~IsFinite(lat) \/ ~IsFinite(lng) THEN [x |-> NaN, y |-> NaN]
    ELSE [x |-> Scaled(width, lng - bounds.west, bounds.east - bounds.west),
          y |-> Scaled(height, bounds.north - lat, bounds.north - bounds.south)]

\* PointOverlay.convertImageCoordsToMapCoords with an overlay and its image
\* layer: the natural size is divided by as it is.
ConvertImageCoordsToMapCoords(bounds, width, height, imageX, imageY) ==
    [lat |-> JsSub(bounds.north, Scaled(bounds.north - bounds.south, imageY, height)),
     lng |-> JsAdd(bounds.west, Scaled(bounds.east - bounds.west, imageX, width))]

\* convertImageToMapCoords with the offsets taken from the corner of the
\* image instead of its centre.
ConvertImageToMapCoordsFromCorner(width, height, imageX, imageY, centerLat, centerLng, scale) ==
    LET metersPerPixel == MetersPerPixel(centerLat)
    IN IF IsFinite(centerLat) /\ IsFinite(centerLng) /\ IsFinite(scale)
          /\ IsFinite(metersPerPixel)
       THEN [lat |-> centerLat - imageY * scale * metersPerPixel,
             lng |-> centerLng + imageX * scale * metersPerPixel]
       ELSE [lat |-> NaN, lng |-> NaN]

\* PointOverlay.convertImageToMapCoords with a current image of the given
\* natural size.
ConvertImageToMapCoordsOf(width, height, imageX, imageY, centerLat, centerLng, scale) ==
    LET offsetX == imageX - width \div 2
        offsetY == imageY - height \div 2
        metersPerPixel == MetersPerPixel(centerLat)
    IN IF IsFinite(centerLat) /\ IsFinite(centerLng) /\ IsFinite(scale)
          /\ IsFinite(metersPerPixel)
       THEN [lat |-> centerLat - offsetY * scale * metersPerPixel,
             lng |-> centerLng + offsetX * scale * metersPerPixel]
       ELSE [lat |-> NaN, lng |-> NaN]

\* ImageOverlay.updateImageDisplay for a current image of the given natural
\* size: the bounds are left as they are for a size of zero.
UpdateImageDisplayOf(width, height, center, scale, bounds) ==
    LET latOffset == JsDiv(JsMul(height, scale), 2)
        lngOffset == JsDiv(JsMul(width, scale), 2)
    IN IF width = 0 \/ height = 0 THEN bounds
       ELSE IF IsFinite(center.lat) /\ IsFinite(center.lng) /\ IsFinite(latOffset)
               /\ IsFinite(lngOffset)
       THEN [south |-> center.lat - latOffset, west |-> center.lng - lngOffset,
             north |-> center.lat + latOffset, east |-> center.lng + lngOffset]
       ELSE bounds

\* The natural widths and heights of the image: none, and two sizes.
ImageSizes == {0, ImageWidth, ImageHeight}

\* The centres and scales of the frames.
FrameCenters == [lat : {InitialCenter.lat, InitialCenter.lat + 10}, lng : {InitialCenter.lng}]
FrameScales == {MinScale, DefaultScale + 1}

\* The bounds the image layer has before updateImageDisplay sets them.
InitialBounds == UpdateImageDisplay(InitialCenter, DefaultScale, Null)

\* Bounds without height and bounds without width, as setBounds accepts them.
DegenerateBounds ==
    {[south |-> InitialCenter.lat, north |-> InitialCenter.lat,
      west |-> InitialCenter.lng - 2, east |-> InitialCenter.lng + 2],
     [south |-> InitialCenter.lat - 4, north |-> InitialCenter.lat + 4,
      west |-> InitialCenter.lng, east |-> InitialCenter.lng]}

\* The bounds updateImageDisplay gives the image layer for the frame.
BoundsOfFrame(a) == UpdateImageDisplayOf(a.width, a.height, a.center, a.scale, InitialBounds)

\* An image, a frame, the bounds of the image layer (those of the frame or
\* degenerate ones), a pixel position of the image and a position of the map.
GeoInit ==
    /\ RouteIdle
    /\ CalIdle
    /\ EditIdle
    /\ \E width \in ImageSizes, height \in ImageSizes, center \in FrameCenters,
          scale \in FrameScales :
          \E x \in 0..width, y \in 0..height,
             lat \in {center.lat, center.lat + 1}, lng \in {center.lng, center.lng - 1} :
             LET a == [width |-> width, height |-> height, center |-> center,
                       scale |-> scale, x |-> x, y |-> y, lat |-> lat, lng |-> lng]
             IN \E bounds \in {BoundsOfFrame(a)} \cup DegenerateBounds :
                   args = [width |-> width, height |-> height, center |-> center,
                           scale |-> scale, x |-> x, y |-> y, lat |-> lat, lng |-> lng,
                           bounds |-> bounds]
    /\ calls = <<>>
    /\ values = <<>>

\* convertImageToMapCoordinates(imageX, imageY) of RouteWaypointManager.
ApplyConvertImageToMapCoordinates ==
    /\ calls = <<>>
    /\ calls' = <<"convertImageToMapCoordinates">>
    /\ values' = <<ConvertImageToMapCoordinatesIn(args.bounds, args.width, args.height,
                                                   args.x, args.y)>>
    /\ UNCHANGED <<routeVars, calVars, editVars, args>>

\* convertImageCoordsToMapCoords(imageX, imageY) of PointOverlay.
ApplyConvertImageCoordsToMapCoords ==
    /\ calls = <<>>
    /\ calls' = <<"convertImageCoordsToMapCoords">>
    /\ values' = <<ConvertImageCoordsToMapCoords(args.bounds, args.width, args.height,
                                                  args.x, args.y)>>
    /\ UNCHANGED <<routeVars, calVars, editVars, args>>

\* convertImageToMapCoords(imageX, imageY, centerLat, centerLng, scale) of
\* PointOverlay.
ApplyConvertImageToMapCoords ==
    /\ calls = <<>>
    /\ calls' = <<"convertImageToMapCoords">>
    /\ values' = <<ConvertImageToMapCoordsOf(args.width, args.height, args.x, args.y,
                                              args.center.lat, args.center.lng, args.scale)>>
    /\ UNCHANGED <<routeVars, calVars, editVars, args>>

\* convertMapToImageCoordinates(lat, lng): of the position of the map, or of
\* the position a conversion from the image has just returned.
ApplyConvertMapToImageCoordinates ==
    /\ Len(calls) <= 1
    /\ "convertMapToImageCoordinates" \notin {calls[k] : k \in 1..Len(calls)}
    /\ LET position == IF calls = <<>> THEN [lat |-> args.lat, lng |-> args.lng]
                       ELSE values[1]
       IN /\ position # Null
          /\ values' = Append(values,
                              ConvertMapToImageCoordinatesIn(args.bounds, args.width,
                                                             args.height, position.lat,
                                                             position.lng))
    /\ calls' = Append(calls, "convertMapToImageCoordinates")
    /\ UNCHANGED <<routeVars, calVars, editVars, args>>

GeoNext ==
    \/ ApplyConvertImageToMapCoordinates
    \/ ApplyConvertImageCoordsToMapCoords
    \/ ApplyConvertImageToMapCoords
    \/ ApplyConvertMapToImageCoordinates

SpecGeo == GeoInit /\ [][GeoNext]_vars

\* ------------------------------------------------ the distances on their own
\* A point with the fields lat and lng, as a GPS marker has them.
LatLngPoint(la, lo) ==
    [index |-> Undefined, imageX |-> Undefined, imageY |-> Undefined,
     lat |-> la, lng |-> lo,
     latitude |-> Undefined, longitude |-> Undefined]

\* The latitudes and longitudes of the points: the equator, the prime
\* meridian, and positions of the region on one meridian.
PointLats == {0, 35, 36}
PointLngs == {0, GpsLng}

\* The points, in both namings of their fields.
GeoPoints ==
    {GpsPoint(la, lo) : la \in PointLats, lo \in PointLngs}
        \cup {LatLngPoint(la, lo) : la \in PointLats, lo \in PointLngs}

\* The number a point has for its latitude and its longitude, which the
\* callers of PointOverlay.calculateDistance hand over.
LatOf(point) == IF point.lat # Undefined THEN point.lat ELSE point.latitude
LngOf(point) == IF point.lng # Undefined THEN point.lng ELSE point.longitude

\* Two points.
DistanceInit ==
    /\ RouteIdle
    /\ CalIdle
    /\ EditIdle
    /\ args \in [a : GeoPoints, b : GeoPoints]
    /\ calls = <<>>
    /\ values = <<>>

\* The distances asked for at most.
MaxCalls == 2

\* RouteOptimizer.calculateDistance(point1, point2) for two of the points.
ApplyCalculateDistance ==
    /\ Len(calls) < MaxCalls
    /\ \E point1 \in {args.a, args.b}, point2 \in {args.a, args.b} :
          values' = Append(values, [from |-> point1, to |-> point2,
                                    distance |-> CalculateDistance(point1, point2)])
    /\ calls' = Append(calls, "RouteOptimizer.calculateDistance")
    /\ UNCHANGED <<routeVars, calVars, editVars, args>>

\* PointOverlay.calculateDistance(lat1, lng1, lat2, lng2) for two of the
\* points.
ApplyPointCalculateDistance ==
    /\ Len(calls) < MaxCalls
    /\ \E point1 \in {args.a, args.b}, point2 \in {args.a, args.b} :
          values' = Append(values, [from |-> point1, to |-> point2,
                                    distance |-> PointCalculateDistance(
                                                     LatOf(point1), LngOf(point1),
                                                     LatOf(point2), LngOf(point2))])
    /\ calls' = Append(calls, "PointOverlay.calculateDistance")
    /\ UNCHANGED <<routeVars, calVars, editVars, args>>

DistanceNext ==
    \/ ApplyCalculateDistance
    \/ ApplyPointCalculateDistance

SpecDistance == DistanceInit /\ [][DistanceNext]_vars

\* ------------------------------------------------------ the load of a route
\* null as JSON.parse gives it for a number field.
JsonNull == 0 - 1000003

\* The index a waypoint of a route file has: none, null, or a number.
FileIndexes == {Undefined, JsonNull, 0, 2, 7}

\* The type a waypoint of a route file has; "" for none.
FileTypes == {"", "waypoint"}

\* The key the route file has its waypoints under; "none" for none of the
\* keys getWaypoints reads.
FileKeys == {"wayPoint", "wayPoints", "points", "none"}

\* A waypoint as JSON.parse gives it.
FileWaypoint(idx, type, x, y) == [index |-> idx, type |-> type, imageX |-> x, imageY |-> y]

\* RouteDataManager.getWaypoints: the array under one of its keys, else [].
GetWaypoints(routeData) ==
    IF routeData.key \in {"wayPoint", "wayPoints", "points"} THEN routeData.list ELSE <<>>

\* if (!point.index): an index of 0 counts as no index too.
LacksIndexFalsy(index) == index = Undefined \/ index = JsonNull \/ index = 0

\* point.index === undefined || point.index === null.
LacksIndex(index) == index = Undefined \/ index = JsonNull

\* The body of the forEach of initializeWaypointData for the waypoint at
\* arrayIndex (counted from 0); Math.round leaves whole pixels as they are.
InitializeWaypoint(point, arrayIndex) ==
    [point EXCEPT !.type = IF point.type = "" THEN "waypoint" ELSE point.type,
                  !.index = IF LacksIndex(point.index) THEN arrayIndex + 1
                            ELSE point.index]

\* RouteDataManager.initializeWaypointData: the route data after it.
InitializeWaypointData(routeData) ==
    IF routeData.key \in {"wayPoint", "wayPoints", "points"}
    THEN [routeData EXCEPT !.list = [k \in 1..Len(GetWaypoints(routeData)) |->
                                        InitializeWaypoint(GetWaypoints(routeData)[k], k - 1)]]
    ELSE routeData

\* A route file read and parsed.
LoadInit ==
    /\ RouteIdle
    /\ CalIdle
    /\ EditIdle
    /\ \E key \in FileKeys, n \in 0..MaxWp :
          \E indexes \in [1..n -> FileIndexes], types \in [1..n -> FileTypes] :
             /\ key = "none" => n = 0
             /\ args = [key |-> key,
                        list |-> [k \in 1..n |->
                                     FileWaypoint(indexes[k], types[k], 1, k)]]
    /\ calls = <<>>
    /\ values = <<>>

\* reader.onload of loadRouteJSON: initializeWaypointData, the push to
\* loadedRoutes, and the route data the promise resolves with.
LoadRouteJSON ==
    /\ calls = <<>>
    /\ calls' = <<"loadRouteJSON">>
    /\ values' = <<InitializeWaypointData(args)>>
    /\ UNCHANGED <<routeVars, calVars, editVars, args>>

LoadNext == LoadRouteJSON

SpecLoad == LoadInit /\ [][LoadNext]_vars

\* --------------------------------------- the editing of the selected route
\* Most waypoints the selected route has when the editing starts.
MaxLoaded == 2

\* The pixel rows waypoints are loaded on, added on and dragged to.
EditRows == {1, ImageHeight}

\* A marker of addRouteToMap: marker.waypointData (the object), whether
\* marker.routeData is the selected route, marker.dragging enabled, and the
\* dragend listener it has ("display": the one addRouteToMap puts on, which
\* ends in updateRouteDataAndDisplay; "move": the one
\* updateMarkerDraggableState puts on, whose callback is empty).
Marker(id, isSelected, dragging, dragend) ==
    [waypointData |-> id, ofSelected |-> isSelected, dragging |-> dragging,
     dragend |-> dragend]

\* The marker of a waypoint of another loaded route: small, dragging disabled.
OtherMarker == Marker(0, FALSE, FALSE, "none")

\* The markers of the other loaded routes among the markers.
RECURSIVE OthersOf(_)
OthersOf(markers) ==
    IF markers = <<>> THEN <<>>
    ELSE (IF Head(markers).ofSelected THEN <<>> ELSE <<Head(markers)>>)
         \o OthersOf(Tail(markers))

\* addRouteToMap(route, true, ...): a marker with draggable: true and the
\* dragend listener for each waypoint whose conversion is not null.
RECURSIVE AddRouteToMap(_, _, _)
AddRouteToMap(h, ids, loaded) ==
    IF ids = <<>> THEN <<>>
    ELSE (IF ConvertImageToMapCoordinates(loaded, h[Head(ids)].imageX,
                                          h[Head(ids)].imageY) = Null
          THEN <<>>
          ELSE <<Marker(Head(ids), TRUE, TRUE, "display")>>)
         \o AddRouteToMap(h, Tail(ids), loaded)

\* RouteEditor.displayAllRoutes(selectedRoute): the markers cleared and made
\* anew for every loaded route.
DisplayAllRoutes(h, ids, loaded, others) == AddRouteToMap(h, ids, loaded) \o others

\* RouteWaypointManager.updateMarkerDraggableState.
UpdateMarkerDraggableState(markers, action) ==
    [k \in 1..Len(markers) |->
        IF markers[k].ofSelected /\ action = "move"
        THEN [markers[k] EXCEPT !.dragging = TRUE, !.dragend = "move"]
        ELSE [markers[k] EXCEPT !.dragging = FALSE, !.dragend = "none"]]

\* RouteEditor.updateRouteDataAndDisplay: displayAllRoutes, then
\* optimizeAndDrawRouteAutomatic, which may put a new array of new objects
\* in the route.
UpdateRouteDataAndDisplay(h, ids, startP, endP, loaded, others) ==
    LET auto == OptimizeAndDrawRouteAutomatic(h, ids, startP, endP, loaded)
    IN [heap |-> auto.heap, route |-> auto.route, routeLines |-> auto.routeLines,
        markers |-> DisplayAllRoutes(h, ids, loaded, others)]

\* The objects the markers of the selected route hold that the route's array
\* does not.
RECURSIVE HeldOnly(_, _)
HeldOnly(markers, ids) ==
    IF markers = <<>> THEN <<>>
    ELSE (IF Head(markers).ofSelected
             /\ \A k \in 1..Len(ids) : ids[k] # Head(markers).waypointData
          THEN <<Head(markers).waypointData>> ELSE <<>>)
         \o HeldOnly(Tail(markers), ids)

\* The objects nothing refers to any more are dropped and the identities
\* handed out anew: the route's array first, then the objects only markers
\* hold.
Collect(h, ids, markers) ==
    LET live == ids \o HeldOnly(markers, ids)
        Place(id) == CHOOSE k \in 1..Len(live) : live[k] = id
    IN [heap |-> [i \in ObjIds |-> IF i <= Len(live) THEN h[live[i]] ELSE Null],
        route |-> [k \in 1..Len(ids) |-> k],
        markers |-> [k \in 1..Len(markers) |->
                        IF markers[k].ofSelected
                        THEN [markers[k] EXCEPT !.waypointData = Place(@)]
                        ELSE markers[k]]]

\* The first place of the array with the pixel position of the target, 0 for
\* none: wayPoints.findIndex of deleteSpecificWaypoint.
FindIndexByPosition(h, ids, target) ==
    LET found == {k \in 1..Len(ids) : h[ids[k]].imageX = target.imageX
                                       /\ h[ids[k]].imageY = target.imageY}
    IN IF found = {} THEN 0 ELSE CHOOSE k \in found : \A j \in found : k <= j

\* The selected route loaded and shown by loadMultipleRouteJSONs: its
\* waypoints with the indexes 1..n, its markers, and the marker of another
\* route; the start point may be missing among the GPS points.
EditInit ==
    /\ CalIdle
    /\ FnIdle
    /\ selected = TRUE
    /\ overlayLoaded = TRUE
    /\ startPoint \in {Null} \cup {GpsPoint(la, GpsLng) : la \in {3}}
    /\ endPoint \in {GpsPoint(la, GpsLng) : la \in EndLats}
    /\ \E n \in 0..MaxLoaded :
          \E rows \in [1..n -> EditRows] :
             input = [k \in 1..n |-> Waypoint(k, 1, rows[k])]
    /\ heap = [i \in ObjIds |-> IF i <= Len(input) THEN input[i] ELSE Null]
    /\ arr = [a \in ArrayNames |-> IF a = "route" THEN [k \in 1..Len(input) |-> k] ELSE <<>>]
    /\ routeRef = "route"
    /\ remainingRef = "none"
    /\ orderRef = "none"
    /\ currentPoint = Null
    /\ pc = "idle"
    /\ handler = "none"
    /\ thrown = FALSE
    /\ escaped = FALSE
    /\ message = "none"
    /\ routeLines = <<>>
    /\ originalDistance = Undefined
    /\ optimizedDistance = Undefined
    /\ selectedActionButton = "none"
    /\ waypointMarkers = DisplayAllRoutes(heap, arr["route"], overlayLoaded,
                                          <<OtherMarker>>)
    /\ lastDrop = Null

\* What the handlers of the editing leave alone.
EditUnchanged ==
    UNCHANGED <<calVars, fnVars, selected, startPoint, endPoint, overlayLoaded, input,
                routeRef, remainingRef, orderRef, currentPoint, pc, originalDistance,
                optimizedDistance>>

\* The click on the add, move or delete button: toggleActionButton and
\* updateMapCursor, which ends in updateMarkerDraggableState.
ToggleActionButton ==
    /\ \E action \in {"add", "move", "delete"} :
          /\ selectedActionButton' = IF selectedActionButton = action THEN "none" ELSE action
          /\ waypointMarkers' = UpdateMarkerDraggableState(waypointMarkers,
                                                           selectedActionButton')
    /\ handler' = "toggle"
    /\ lastDrop' = Null
    /\ UNCHANGED <<heap, arr, thrown, escaped, message, routeLines>>
    /\ EditUnchanged

\* onMapClick with the action 'add': addWaypointToRoute and
\* updateRouteDataAndDisplay.
MapClickAdd ==
    /\ selectedActionButton = "add"
    /\ Len(arr[routeRef]) <= MaxLoaded
    /\ GetNextWaypointIndex(heap, arr[routeRef]) <= MaxLoaded + 2
    /\ \E clickLat \in {Bounds.north - row : row \in EditRows} :
          LET imageCoords == ConvertMapToImageCoordinates(overlayLoaded, clickLat, GpsLng)
          IN IF IsNearGPSPoint(clickLat, GpsLng)
             THEN UNCHANGED <<heap, arr, waypointMarkers, thrown, escaped, message,
                              routeLines>>
             ELSE IF imageCoords = Null
             THEN /\ thrown' = TRUE
                  /\ escaped' = CatchAndShow("conversionFailed").escaped
                  /\ message' = CatchAndShow("conversionFailed").message
                  /\ UNCHANGED <<heap, arr, waypointMarkers, routeLines>>
             ELSE LET nid == NextId(heap)
                      newWaypoint == Waypoint(GetNextWaypointIndex(heap, arr[routeRef]),
                                              imageCoords.x, imageCoords.y)
                  IN \E u \in {UpdateRouteDataAndDisplay([heap EXCEPT ![nid] = newWaypoint],
                                                         Append(arr[routeRef], nid),
                                                         startPoint, endPoint, overlayLoaded,
                                                         OthersOf(waypointMarkers))} :
                     \E c \in {Collect(u.heap, u.route, u.markers)} :
                     /\ heap' = c.heap
                     /\ arr' = [arr EXCEPT ![routeRef] = c.route]
                     /\ waypointMarkers' = c.markers
                     /\ routeLines' = u.routeLines
                     /\ UNCHANGED <<thrown, escaped, message>>
    /\ handler' = "add"
    /\ lastDrop' = Null
    /\ UNCHANGED selectedActionButton
    /\ EditUnchanged

\* The click on a marker of the selected route with the action 'delete':
\* deleteSpecificWaypoint with the marker's waypoint and, when the array has
\* a waypoint at its pixel position, updateRouteDataAndDisplay.
MarkerClickDelete ==
    /\ selectedActionButton = "delete"
    /\ \E m \in 1..Len(waypointMarkers) :
          /\ waypointMarkers[m].ofSelected
          /\ LET targetIndex == FindIndexByPosition(heap, arr[routeRef],
                                                    heap[waypointMarkers[m].waypointData])
             IN IF targetIndex = 0
                THEN UNCHANGED <<heap, arr, waypointMarkers, routeLines>>
                ELSE \E u \in {UpdateRouteDataAndDisplay(heap,
                                                           Splice(arr[routeRef], targetIndex),
                                                           startPoint, endPoint, overlayLoaded,
                                                           OthersOf(waypointMarkers))} :
                     \E c \in {Collect(u.heap, u.route, u.markers)} :
                        /\ heap' = c.heap
                        /\ arr' = [arr EXCEPT ![routeRef] = c.route]
                        /\ waypointMarkers' = c.markers
                        /\ routeLines' = u.routeLines
    /\ handler' = "delete"
    /\ lastDrop' = Null
    /\ UNCHANGED <<selectedActionButton, thrown, escaped, message>>
    /\ EditUnchanged

\* The click on the optimize button: clearActionButtonSelection, then
\* RouteEditor.optimizeRoute with updateWaypointsInRoute,
\* updateRouteDataAndDisplay and drawRouteSegments.
OptimizeRouteButton ==
    /\ selectedActionButton' = "none"
    /\ LET error == OptimizeRouteError(startPoint, endPoint, arr[routeRef])
           cleared == UpdateMarkerDraggableState(waypointMarkers, "none")
       IN IF error # "none"
          THEN /\ thrown' = TRUE
               /\ escaped' = CatchAndShow(error).escaped
               /\ message' = CatchAndShow(error).message
               /\ waypointMarkers' = cleared
               /\ UNCHANGED <<heap, arr, routeLines>>
          ELSE \E r \in {OptimizeRouteCall(heap, arr[routeRef], startPoint, endPoint,
                                             overlayLoaded)} :
               \E u \in {UpdateRouteDataAndDisplay(r.heap, r.order, startPoint, endPoint,
                                                     overlayLoaded, OthersOf(cleared))} :
               \E c \in {Collect(u.heap, u.route, u.markers)} :
                  /\ heap' = c.heap
                  /\ arr' = [arr EXCEPT ![routeRef] = c.route]
                  /\ waypointMarkers' = c.markers
                  /\ routeLines' = DrawRouteSegmentsCall(u.heap, u.route, startPoint,
                                                         endPoint, overlayLoaded).routeLines
                  /\ UNCHANGED <<thrown, escaped, message>>
    /\ handler' = "optimize"
    /\ lastDrop' = Null
    /\ EditUnchanged

\* The dragend of a marker whose dragging is enabled: onWaypointDragEnd writes
\* the rounded pixel position to marker.waypointData; the listener of
\* addRouteToMap goes on to updateRouteDataAndDisplay, the one of
\* updateMarkerDraggableState does nothing more.
WaypointDragEnd ==
    /\ \E m \in 1..Len(waypointMarkers), dropLat \in {Bounds.north - row : row \in EditRows} :
          /\ waypointMarkers[m].dragging
          /\ waypointMarkers[m].dragend \in {"display", "move"}
          /\ LET imageCoords == ConvertMapToImageCoordinates(overlayLoaded, dropLat, GpsLng)
                 id == waypointMarkers[m].waypointData
                 written == [heap EXCEPT ![id] = [@ EXCEPT !.imageX = imageCoords.x,
                                                          !.imageY = imageCoords.y]]
             IN IF imageCoords = Null
                THEN /\ thrown' = TRUE
                     /\ escaped' = (waypointMarkers[m].dragend = "move")
                     /\ message' = IF waypointMarkers[m].dragend = "move" THEN message
                                   ELSE "error"
                     /\ lastDrop' = Null
                     /\ UNCHANGED <<heap, arr, waypointMarkers, routeLines>>
                ELSE /\ lastDrop' = [x |-> imageCoords.x, y |-> imageCoords.y]
                     /\ UNCHANGED <<thrown, escaped, message>>
                     /\ IF waypointMarkers[m].dragend = "move"
                        THEN /\ heap' = written
                             /\ UNCHANGED <<arr, waypointMarkers, routeLines>>
                        ELSE \E u \in {UpdateRouteDataAndDisplay(written, arr[routeRef],
                                                                   startPoint, endPoint,
                                                                   overlayLoaded,
                                                                   OthersOf(waypointMarkers))} :
                             \E c \in {Collect(u.heap, u.route, u.markers)} :
                                /\ heap' = c.heap
                                /\ arr' = [arr EXCEPT ![routeRef] = c.route]
                                /\ waypointMarkers' = c.markers
                                /\ routeLines' = u.routeLines
    /\ handler' = "dragend"
    /\ UNCHANGED selectedActionButton
    /\ EditUnchanged

EditNext ==
    \/ ToggleActionButton
    \/ MapClickAdd
    \/ MarkerClickDelete
    \/ OptimizeRouteButton
    \/ WaypointDragEnd

SpecEdit == EditInit /\ [][EditNext]_vars

\* ------------------------------------------- the validation of a route file
\* The ids of GPS points; "" for a start or end point the file does not name.
PointIds == {"A", "B", "C"}

\* The GPSData object after addGPSMarkersToMap put the points on the map: the
\* points are in gpsMarkers, and gpsPoints is a property it never has.
GPSData(ids) == [gpsMarkers |-> ids, gpsPoints |-> GpsPointsProperty]

\* A warning of validateRouteJSON: what it is about and the value it names.
Warning(about, value) == [about |-> about, value |-> value]

\* RouteDataManager.validateRouteJSON; currentImageFileName is "a.png".
ValidateRouteJSON(routeData, gpsData) ==
    LET reference == IF routeData.imageReference # ""
                        /\ routeData.imageReference # "a.png"
                     THEN <<Warning("imageReference", routeData.imageReference)>>
                     ELSE <<>>
        \* wayPointCount || waypointCount || ...: a count of 0 is no count
        count == IF routeData.wayPointCount \notin {Undefined, 0}
                    /\ routeData.wayPointCount # Len(GetWaypoints(routeData))
                 THEN <<Warning("wayPointCount", "")>>
                 ELSE <<>>
        Missing(about, id) ==
            IF gpsData.gpsPoints # Undefined /\ id # "" /\ id \notin gpsData.gpsPoints
            THEN <<Warning(about, id)>> ELSE <<>>
        warnings == reference \o count \o Missing("startPoint", routeData.startPoint)
                        \o Missing("endPoint", routeData.endPoint)
    IN [isValid |-> warnings = <<>>, warnings |-> warnings]

\* A route file parsed and some GPS points loaded.
ValidateInit ==
    /\ RouteIdle
    /\ CalIdle
    /\ EditIdle
    /\ \E start \in PointIds \cup {""}, end \in PointIds \cup {""},
          loaded \in SUBSET {"A", "B"}, n \in 0..MaxCalls,
          wayPointCount \in {Undefined} \cup 0..MaxCalls,
          imageReference \in {"", "a.png", "b.png"} :
          args = [routeData |-> [startPoint |-> start, endPoint |-> end,
                                 imageReference |-> imageReference,
                                 wayPointCount |-> wayPointCount, key |-> "wayPoint",
                                 list |-> [k \in 1..n |-> FileWaypoint(k, "waypoint", 1, k)]],
                  gpsData |-> GPSData(loaded)]
    /\ calls = <<>>
    /\ values = <<>>

\* validateRouteJSON applied to the file in reader.onload of loadRouteJSON.
ApplyValidateRouteJSON ==
    /\ calls = <<>>
    /\ calls' = <<"validateRouteJSON">>
    /\ values' = <<ValidateRouteJSON(args.routeData, args.gpsData)>>
    /\ UNCHANGED <<routeVars, calVars, editVars, args>>

ValidateNext == ApplyValidateRouteJSON

SpecValidate == ValidateInit /\ [][ValidateNext]_vars

\* ------------------------------------------------- the save of the route
\* FileHandler.saveJSONWithUserChoice: what became of the file, and the value
\* the promise resolves with. No path of the function returns a value: after
\* the write, after the download and after the cancel it resolves with
\* undefined.
SaveJSONWithUserChoice(picker, outcome) ==
    [file |-> IF ~picker THEN "downloaded"
              ELSE IF outcome = "written" THEN "written"
              ELSE IF outcome = "AbortError" THEN "none"
              ELSE "downloaded",
     returned |-> Undefined]

\* RouteDataManager.saveSelectedRoute after the await: result.success of an
\* undefined result throws a TypeError, which the catch turns into a failure.
SaveSelectedRoute(isEdited, written) ==
    IF written = Undefined
    THEN [success |-> FALSE, cancelled |-> FALSE, error |-> "TypeError",
          isEdited |-> isEdited]
    ELSE IF written.success
    THEN [success |-> TRUE, cancelled |-> FALSE, error |-> "", isEdited |-> FALSE]
    ELSE IF written.error = "キャンセル"
    THEN [success |-> FALSE, cancelled |-> TRUE, error |-> "", isEdited |-> isEdited]
    ELSE [success |-> FALSE, cancelled |-> FALSE, error |-> written.error,
          isEdited |-> isEdited]

\* A selected route, edited or not.
SaveInit ==
    /\ RouteIdle
    /\ CalIdle
    /\ EditIdle
    /\ args \in [isEdited : BOOLEAN]
    /\ calls = <<>>
    /\ values = <<>>

\* RouteDataManager.updateRouteData, at the end of an edit of the route.
ApplyUpdateRouteData ==
    /\ Len(calls) <= MaxCalls
    /\ args' = [args EXCEPT !.isEdited = TRUE]
    /\ calls' = Append(calls, "updateRouteData")
    /\ values' = Append(values, [file |-> "none", message |-> "none", success |-> FALSE,
                                 cancelled |-> FALSE])
    /\ UNCHANGED <<routeVars, calVars, editVars>>

\* The click on the save button: RouteEditor.saveSelectedRoute with the file
\* picker there or not, and the write done, cancelled or failed.
ApplySaveSelectedRoute ==
    /\ Len(calls) <= MaxCalls
    /\ \E picker \in BOOLEAN, outcome \in {"written", "AbortError", "NotAllowedError"} :
          LET write == SaveJSONWithUserChoice(picker, outcome)
              saved == SaveSelectedRoute(args.isEdited, write.returned)
          IN /\ args' = [args EXCEPT !.isEdited = saved.isEdited]
             /\ values' = Append(values,
                                 [file |-> write.file,
                                  message |-> IF saved.success THEN "success"
                                              ELSE IF saved.cancelled THEN "none"
                                              ELSE "error",
                                  success |-> saved.success,
                                  cancelled |-> saved.cancelled])
    /\ calls' = Append(calls, "saveSelectedRoute")
    /\ UNCHANGED <<routeVars, calVars, editVars>>

SaveNext ==
    \/ ApplyUpdateRouteData
    \/ ApplySaveSelectedRoute

SpecSave == SaveInit /\ [][SaveNext]_vars

\* ----------------------------------------- the load of several route files
\* Most route files one loadMultipleRouteJSONs call is given.
MaxFiles == 3

\* The start and end points route files name; "" for a file that names none.
FileStarts == {"", "A"}
FileEnds == {"", "A", "B"}

\* findExistingRoute compares with the first loaded route only.
FindExistingRouteFirst(files, loadedRoutes, startId, endId) ==
    LET found == {k \in 1..Len(loadedRoutes) :
                     /\ k = 1
                     /\ files[loadedRoutes[k]].startPoint = startId
                     /\ files[loadedRoutes[k]].endPoint = endId}
    IN IF found = {} THEN 0 ELSE CHOOSE k \in found : \A j \in found : k <= j

\* RouteDataManager.findExistingRoute: the place in loadedRoutes of the first
\* route with the start and end point, 0 for undefined. loadedRoutes holds
\* the routes by the number of their file.
FindExistingRoute(files, loadedRoutes, startId, endId) ==
    LET found == {k \in 1..Len(loadedRoutes) :
                     /\ files[loadedRoutes[k]].startPoint = startId
                     /\ files[loadedRoutes[k]].endPoint = endId}
    IN IF found = {} THEN 0 ELSE CHOOSE k \in found : \A j \in found : k <= j

\* The two warnings of validateRouteJSON that make loadRouteJSON reject the
\* file: 'が同じです' for a start that is the end, '既に読み込まれています' for
\* a route already loaded. Both are looked at only if (startPoint && endPoint);
\* the other warnings leave the file accepted.
RejectingWarnings(files, loadedRoutes, routeData) ==
    IF routeData.startPoint # "" /\ routeData.endPoint # ""
    THEN (IF routeData.startPoint = routeData.endPoint THEN {"samePoint"} ELSE {})
         \cup (IF FindExistingRoute(files, loadedRoutes, routeData.startPoint,
                                     routeData.endPoint) # 0
                THEN {"duplicate"} ELSE {})
    ELSE {}

\* loadMultipleRouteJSONs has started the read of every file; no read has
\* completed.
MultiInit ==
    /\ RouteIdle
    /\ CalIdle
    /\ EditIdle
    /\ \E n \in 2..MaxFiles :
          args \in [1..n -> [startPoint : FileStarts, endPoint : FileEnds]]
    /\ calls = <<>>
    /\ values = [loadedRoutes |-> <<>>, errors |-> <<>>, returned |-> FALSE]

\* reader.onload of the file, whichever read completes next: the validation
\* against the routes loaded by then, and the reject or the push.
ReaderOnload ==
    /\ \E file \in DOMAIN args :
          /\ \A k \in 1..Len(calls) : calls[k] # file
          /\ calls' = Append(calls, file)
          /\ IF RejectingWarnings(args, values.loadedRoutes, args[file]) # {}
             THEN values' = [values EXCEPT !.errors = Append(@, file)]
             ELSE values' = [values EXCEPT !.loadedRoutes = Append(@, file)]
    /\ UNCHANGED <<routeVars, calVars, editVars, args>>

\* Promise.all of the reads settles and loadMultipleRouteJSONs returns
\* {successful, errors, allResults}.
LoadMultipleReturn ==
    /\ Len(calls) = Len(args)
    /\ ~values.returned
    /\ values' = [values EXCEPT !.returned = TRUE]
    /\ UNCHANGED <<routeVars, calVars, editVars, args, calls>>

MultiNext ==
    \/ ReaderOnload
    \/ LoadMultipleReturn

SpecMulti == MultiInit /\ [][MultiNext]_vars

\* ------------------------------------------- the image and the map's zoom
\* The zoom levels of the map; the finest is the one MetersPerPixel is
\* measured at.
Zooms == 0..2

\* 2 ^ n.
RECURSIVE PowerOfTwo(_)
PowerOfTwo(n) == IF n = 0 THEN 1 ELSE 2 * PowerOfTwo(n - 1)

\* 156543.03392 * cos(centerLat * pi / 180) / 2 ^ map.getZoom(): twice as
\* much on every zoom level out.
MetersPerPixelAt(centerLat, zoom) ==
    JsMul(MetersPerPixel(centerLat), PowerOfTwo(Max(Zooms) - zoom))

\* ImageOverlay.updateImageDisplay at a zoom level of the map: the offsets are
\* the image size * scale * metersPerPixel / 2.
UpdateImageDisplayAt(zoom, center, scale, bounds) ==
    UpdateImageDisplay(center, JsMul(scale, MetersPerPixelAt(center.lat, zoom)), bounds)

\* An image loaded and shown at the initial centre with the default scale.
ZoomInit ==
    /\ RouteIdle
    /\ CalIdle
    /\ EditIdle
    /\ \E zoom \in Zooms :
          args = [zoom |-> zoom, centerMarker |-> InitialCenter,
                  currentScale |-> DefaultScale,
                  imageBounds |-> UpdateImageDisplayAt(zoom, InitialCenter, DefaultScale,
                                                      InitialBounds)]
    /\ calls = <<>>
    /\ values = <<>>

\* PointOverlay.applyImageAdjustment with a finite centre and scale; values
\* keeps the centre and the bounds it gave the image.
ApplyApplyImageAdjustment ==
    /\ Len(calls) <= MaxCalls
    /\ \E center \in FrameCenters, newScale \in {MinScale, DefaultScale} :
          /\ args' = [args EXCEPT !.currentScale = newScale,
                                  !.centerMarker = center,
                                  !.imageBounds = UpdateImageDisplayAt(args.zoom, center,
                                                      GetCurrentScale(newScale), @)]
          /\ values' = <<[center |-> center, bounds |-> args'.imageBounds]>>
    /\ calls' = Append(calls, "applyImageAdjustment")
    /\ UNCHANGED <<routeVars, calVars, editVars>>

\* The user zooms the map: the image layer keeps its bounds.
MapZoom ==
    /\ Len(calls) <= MaxCalls
    /\ \E zoom \in Zooms \ {args.zoom} : args' = [args EXCEPT !.zoom = zoom]
    /\ calls' = Append(calls, "zoom")
    /\ UNCHANGED <<routeVars, calVars, editVars, values>>

\* ImageOverlay.moveImageToPosition.
MoveImageToPosition ==
    /\ Len(calls) <= MaxCalls
    /\ \E newPosition \in FrameCenters :
          args' = [args EXCEPT !.centerMarker = newPosition,
                               !.imageBounds = UpdateImageDisplayAt(args.zoom, newPosition,
                                                   GetCurrentScale(args.currentScale), @)]
    /\ calls' = Append(calls, "moveImageToPosition")
    /\ UNCHANGED <<routeVars, calVars, editVars, values>>

ZoomNext ==
    \/ ApplyApplyImageAdjustment
    \/ MapZoom
    \/ MoveImageToPosition

SpecZoom == ZoomInit /\ [][ZoomNext]_vars

\* ======================================================== the claims
\* What the claims read off a state of the optimizer.
\* The while loop of optimizeWaypointOrder has run at least one pass.
AfterPass == pc \in {"loop", "index"} /\ remainingRef # "none" /\ Len(arr[orderRef]) >= 1

\* The waypoint the last pass appended, and the position it was taken from.
LastAppended == arr[orderRef][Len(arr[orderRef])]
LastFrom ==
    IF Len(arr[orderRef]) = 1 THEN startPoint
    ELSE heap[arr[orderRef][Len(arr[orderRef]) - 1]]

\* The waypoints not yet appended when the last pass began.
NotYetAppended ==
    {LastAppended} \cup {arr[remainingRef][j] : j \in 1..Len(arr[remainingRef])}

PassDistance(id) == CalculateDistance(LastFrom, heap[id])

\* The waypoints at the minimum distance: no greater than any other's.
AtMinimum == {w \in NotYetAppended : \A v \in NotYetAppended :
                                         JsLessEq(PassDistance(w), PassDistance(v))}

\* The place of an object in waypointCoords, the input order.
InputPlace(id) == CHOOSE k \in 1..Len(arr["coords"]) : arr["coords"][k] = id

\* How often pixel position <<x, y>> occurs among waypoint values.
Occurrences(points, x, y) ==
    Cardinality({k \in 1..Len(points) : points[k].imageX = x /\ points[k].imageY = y})

RouteFields == Fields(heap, arr[routeRef])

\* C1: every waypoint the loop of optimizeWaypointOrder appends has the
\* minimum distance to the position it was taken from among all waypoints not
\* yet appended, and currentPoint advances to it.
C1_AppendsNearest ==
    AfterPass =>
        /\ LastAppended \in AtMinimum
        /\ currentPoint = heap[LastAppended]

C3_SamePixelPositions ==
    (handler = "optimize" /\ pc = "done" /\ selected /\ ~thrown) =>
        \A x \in Columns, y \in Rows :
            Occurrences(RouteFields, x, y) = Occurrences(input, x, y)

\* C4: the waypoints optimizeRoute returns carry the indexes 1..N in the
\* returned order, so the index order drawRouteSegments sorts by is the
\* optimized order.
C4_IndexesFollowOrder ==
    pc = "returned" =>
        /\ \A k \in 1..Len(arr[orderRef]) : heap[arr[orderRef][k]].index = k
        /\ SortByIndex(heap, arr[orderRef], <<>>) = arr[orderRef]

\* C4 witness: optimizeRoute returns two or more waypoints in another order
\* than the input's.
C4_Witness ==
    /\ pc = "returned"
    /\ Len(arr[orderRef]) >= 2
    /\ arr[orderRef] # arr["coords"]

C6_EmptyRouteNoFailure ==
    (handler = "optimize" /\ pc = "done" /\ selected /\ startPoint # Null
        /\ endPoint # Null /\ Len(input) = 0) =>
        ~thrown /\ message = "none"

\* C6 amended: optimizeRoute on a route with no waypoints throws, which
\* RouteEditor shows as a warning, and the route stays empty;
\* optimizeWaypointOrder given an empty list (no waypoint could be converted)
\* returns an empty order whose total is the start-end distance, and given
\* exactly one waypoint returns that waypoint.
C6_EmptyRouteThrows ==
    /\ (handler = "optimize" /\ pc = "done" /\ selected /\ startPoint # Null
           /\ endPoint # Null /\ Len(input) = 0) =>
            thrown /\ message = "warning" /\ arr[routeRef] = <<>> /\ orderRef = "none"
    /\ (pc = "returned" /\ Len(arr["coords"]) = 0) =>
            /\ arr[orderRef] = <<>>
            /\ originalDistance = CalculateDistance(startPoint, endPoint)
            /\ optimizedDistance = CalculateDistance(startPoint, endPoint)
    /\ (pc = "returned" /\ Len(arr["coords"]) = 1) => arr[orderRef] = arr["coords"]

\* C6 witness: the optimize handler has ended on a selected route with both
\* end points and no waypoints.
C6_Witness ==
    /\ handler = "optimize" /\ pc = "done" /\ selected
    /\ startPoint # Null /\ endPoint # Null /\ Len(input) = 0

C8_InputUntouched ==
    pc \in {"loop", "index", "returned"} =>
        /\ routeRef = "route"
        /\ arr["route"] = [k \in 1..Len(input) |-> k]
        /\ \A k \in 1..Len(input) : heap[k] = input[k]
        /\ orderRef \notin {"route", "coords"}
        /\ arr["coords"] = (IF overlayLoaded
                            THEN [k \in 1..Len(input) |-> Len(input) + k]
                            ELSE <<>>)
        /\ \A k \in 1..Len(arr["coords"]) :
              /\ heap[arr["coords"][k]].imageX = input[k].imageX
              /\ heap[arr["coords"][k]].imageY = input[k].imageY
              /\ pc # "returned" => heap[arr["coords"][k]].index = input[k].index

\* C8 witness: optimizeRoute has returned a reordered array whose waypoints
\* carry other indexes than the originals they were copied from.
C8_Witness ==
    /\ pc = "returned"
    /\ Len(arr[orderRef]) >= 2
    /\ \E k \in 1..Len(input) : heap[Len(input) + k].index # input[k].index

\* What the claims read off a state of the calibration.
\* The candidate the next pass of the inner loop evaluates.
NextTestLat == JsAdd(bestCenterLat, Delta(candidate \div 3, Step(iter)))
NextTestLng == JsAdd(bestCenterLng, Delta(candidate % 3, Step(iter)))
NextTestScale == CalculateOptimalScale(matchedPairs, NextTestLat, NextTestLng)
NextTestError == CalculateTotalError(matchedPairs, NextTestLat, NextTestLng, NextTestScale)

\* The error of the estimate the search started from.
InitialError == InitialEstimate(matchedPairs, currentScale).totalError

\* The values isFinite is false of.
NotFinite == {NaN, Infinity, Undefined}

\* C9: the best error of optimizeImageParameters is always the error of the
\* best (centre, scale); a pass of the loop leaves the best as it is or
\* replaces it by a candidate of strictly smaller error, so a candidate of
\* equal error never replaces it; and the totalError returned is the error of
\* the returned (centre, scale) and not greater than the initial estimate's.
C9_BestErrorNeverIncreases ==
    /\ [](calPc \in {"search", "check"} =>
            bestError = CalculateTotalError(matchedPairs, bestCenterLat, bestCenterLng,
                                            bestScale))
    /\ [][calPc = "search" =>
            \/ UNCHANGED <<bestError, bestCenterLat, bestCenterLng, bestScale>>
            \/ /\ JsLess(bestError', bestError)
               /\ bestError' = NextTestError
               /\ bestCenterLat' = NextTestLat
               /\ bestCenterLng' = NextTestLng
               /\ bestScale' = NextTestScale]_vars
    /\ [][(calPc = "check" /\ result' # Null) =>
            /\ result'.totalError =
                  CalculateTotalError(matchedPairs, result'.centerLat, result'.centerLng,
                                      result'.scale)
            /\ JsLessEq(result'.totalError, InitialError)]_vars

\* C9 witness: the search has replaced its best by a better candidate, and
\* the candidate it evaluates next, at another centre, has the very error of
\* the best.
C9_Witness ==
    /\ calPc = "search"
    /\ JsLess(bestError, InitialError)
    /\ NextTestError = bestError
    /\ <<NextTestLat, NextTestLng>> # <<bestCenterLat, bestCenterLng>>

\* C10: the centre marker and the scale of the overlay are finite and the
\* scale positive at all times; and when the best after the last iteration
\* has a centre or scale that is not finite, or a scale <= 0,
\* optimizeImageParameters returns null, the failure of the optimization is
\* shown, and scale, centre marker and image bounds stay as they were.
C10_NeverInstallsInvalid ==
    /\ [](/\ centerMarker.lat \notin NotFinite
          /\ centerMarker.lng \notin NotFinite
          /\ currentScale \notin NotFinite
          /\ currentScale > 0)
    /\ [][(/\ calPc = "check"
           /\ \/ bestCenterLat \in NotFinite
              \/ bestCenterLng \in NotFinite
              \/ bestScale \in NotFinite
              \/ bestScale <= 0) =>
            /\ result' = Null
            /\ calMessage' = "optimizationFailed"
            /\ UNCHANGED <<currentScale, centerMarker, imageBounds>>]_vars

\* C10 witness: a calibration has ended in the failure of the optimization,
\* its best centre not finite.
C10_Witness ==
    /\ calPc = "done"
    /\ Len(matchedPairs) >= 2
    /\ bestCenterLat \in NotFinite
    /\ calMessage = "optimizationFailed"

\* C11: the candidate a pass of the inner loop evaluates is the centre
\* the best had when the iteration began, moved by (dLat, dLng), the dLat and
\* dLng of the pass's place in the 3 x 3 loops, each of -step, 0, +step.
C11_GridAroundIterationCenter ==
    calPc = "search" =>
        /\ NextTestLat = JsAdd(iterationCenter.lat, Delta(candidate \div 3, Step(iter)))
        /\ NextTestLng = JsAdd(iterationCenter.lng, Delta(candidate % 3, Step(iter)))

\* C12: autoAdjustImageToGPS with fewer than two matched pairs shows the
\* error and returns: no estimate is made, no candidate evaluated, and the
\* overlay's scale, centre marker and bounds are as before.
C12_TooFewPairsFails ==
    /\ [][(calPc = "idle" /\ Len(matchedPairs) < 2) =>
            /\ calPc' = "done"
            /\ calMessage' = "tooFewPairs"
            /\ UNCHANGED <<currentScale, centerMarker, imageBounds, result, iter, candidate,
                           bestCenterLat, bestCenterLng, bestScale, bestError>>]_vars
    /\ [](Len(matchedPairs) < 2 =>
            /\ calPc \in {"idle", "done"}
            /\ bestError = Undefined
            /\ result = Null
            /\ centerMarker = InitialCenter)

\* C12 witness: a calibration started with exactly one matched pair has ended
\* with the error.
C12_Witness ==
    /\ calPc = "done"
    /\ Len(matchedPairs) = 1
    /\ calMessage = "tooFewPairs"

\* C13: optimizeImageParameters terminates: every pass of the inner loop is
\* one candidate evaluation more, an iteration has 9 of them, the loop is left
\* after exactly Iterations iterations (9 * Iterations evaluations), and the
\* call then returns a result or shows the failure of the optimization.
C13_Terminates ==
    /\ [](/\ candidate \in 0..8
          /\ iter \in 0..Iterations
          /\ calPc = "search" => iter < Iterations
          /\ calPc = "check" => iter = Iterations /\ candidate = 0)
    /\ [][calPc = "search" => 9 * iter' + candidate' = 9 * iter + candidate + 1]_vars
    /\ (calPc = "search") ~> (calPc = "done")
    /\ []((calPc = "done" /\ Len(matchedPairs) >= 2) =>
            /\ 9 * iter + candidate = 9 * Iterations
            /\ result # Null \/ calMessage = "optimizationFailed")

\* C13 witness: a calibration has run through all its iterations and returned
\* a result.
C13_Witness ==
    /\ calPc = "done"
    /\ iter = Iterations
    /\ result # Null

\* The first two matched pairs are at one pixel position.
CoincidentPixels ==
    /\ Len(matchedPairs) >= 2
    /\ matchedPairs[1].imageX = matchedPairs[2].imageX
    /\ matchedPairs[1].imageY = matchedPairs[2].imageY

\* C14: when the first two matched pairs are at one pixel position, the
\* scale the search starts with is the overlay's current scale (the default
\* scale if the current one is 0 or not set).
C14_DegenerateStartsAtCurrentScale ==
    (calPc = "search" /\ iter = 0 /\ candidate = 0 /\ CoincidentPixels) =>
        bestScale = (IF currentScale \in {0, NaN, Undefined} THEN DefaultScale
                     ELSE currentScale)

\* C14 witness: a search has started from two pairs at one pixel position
\* with an overlay scale other than the default.
C14_Witness ==
    /\ calPc = "search" /\ iter = 0 /\ candidate = 0
    /\ CoincidentPixels
    /\ currentScale # DefaultScale
    /\ bestScale = currentScale

\* The pixel positions of the matched pairs.
PairPixelsOf(pairs) == [k \in 1..Len(pairs) |-> <<pairs[k].imageX, pairs[k].imageY>>]

\* The frames the matched pairs are the noise-free data of.
FramesOfPairs ==
    {frame \in SyntheticFrames :
        matchedPairs = PairsOfFrame(frame, PairPixelsOf(matchedPairs))}

\* The fitted parameters are the frame's: the centre within the first step
\* of the search (0.0001 degrees), the scale within the least scale (0.001).
Recovered(frame) ==
    /\ result # Null
    /\ Abs(result.centerLat - frame.lat) <= Step(0)
    /\ Abs(result.centerLng - frame.lng) <= Step(0)
    /\ Abs(result.scale - frame.scale) <= MinScale

\* C15: when the calibration has returned for three or more matched pairs
\* that convertImageToMapCoords gives under a frame, its result is that
\* frame's centre and scale within the tolerance, wherever the pairs lie in
\* the image.
C15_RecoversSyntheticFrame ==
    (calPc = "done" /\ Len(matchedPairs) >= 3) =>
        \A frame \in FramesOfPairs : Recovered(frame)

\* The pixel position the conversions started from.
ArgsPixel == [x |-> args.x, y |-> args.y]

\* The pixel lies strictly inside the image.
StrictlyInside ==
    /\ 0 < args.x /\ args.x < args.width
    /\ 0 < args.y /\ args.y < args.height

\* The image layer has the bounds updateImageDisplay gave it for the frame.
BoundsFromFrame ==
    /\ args.width # 0 /\ args.height # 0
    /\ args.bounds = BoundsOfFrame(args)

\* C16: for a pixel strictly inside the image and the bounds of the frame,
\* convertMapToImageCoordinates of what convertImageToMapCoordinates
\* returned, and of what convertImageToMapCoords returned for the frame's
\* centre and scale, is the pixel again.
C16_RoundTrip ==
    (/\ Len(calls) = 2
     /\ calls[1] \in {"convertImageToMapCoordinates", "convertImageToMapCoords"}
     /\ calls[2] = "convertMapToImageCoordinates"
     /\ StrictlyInside /\ BoundsFromFrame)
        => values[2] = ArgsPixel

C16_Witness ==
    /\ calls = <<"convertImageToMapCoords", "convertMapToImageCoordinates">>
    /\ StrictlyInside /\ BoundsFromFrame
    /\ args.y # args.height \div 2
    /\ args.scale # MinScale
    /\ values[2] = ArgsPixel

\* C17: convertImageToMapCoords of the pixel (width / 2, height / 2) is the
\* centre it was given, for every size of the image and every scale.
C17_CenterPixelIsFrameCenter ==
    (/\ calls = <<"convertImageToMapCoords">>
     /\ args.x = args.width \div 2 /\ args.y = args.height \div 2)
        => values[1] = [lat |-> args.center.lat, lng |-> args.center.lng]

C17_Witness ==
    /\ calls = <<"convertImageToMapCoords">>
    /\ args.width # 0 /\ args.height # 0 /\ args.width # args.height
    /\ args.x = args.width \div 2 /\ args.y = args.height \div 2
    /\ values[1] = [lat |-> args.center.lat, lng |-> args.center.lng]

\* The image has no width or no height, or the bounds of the image layer
\* have none.
Degenerate ==
    \/ args.width = 0 \/ args.height = 0
    \/ args.bounds.north = args.bounds.south
    \/ args.bounds.east = args.bounds.west

\* C18: with an image of zero width or height or with degenerate bounds,
\* convertImageToMapCoordinates, convertImageCoordsToMapCoords and
\* convertMapToImageCoordinates return null.
C18_DegenerateGivesNull ==
    (/\ Len(calls) = 1
     /\ calls[1] \in {"convertImageToMapCoordinates", "convertImageCoordsToMapCoords",
                         "convertMapToImageCoordinates"}
     /\ Degenerate)
        => values[1] = Null

\* C19: a distance from a point to itself is 0, and two distances the same
\* function gave for the same two points in the two orders are equal, for
\* points with a coordinate of 0 and in both namings of the fields.
C19_SymmetryAndIdentity ==
    \A j, k \in 1..Len(values) :
        /\ (calls[k] \in {"RouteOptimizer.calculateDistance", "PointOverlay.calculateDistance"}
             /\ values[k].from = values[k].to)
                => JsEquals(values[k].distance, 0)
        /\ (/\ calls[j] = calls[k]
            /\ calls[k] \in {"RouteOptimizer.calculateDistance",
                              "PointOverlay.calculateDistance"}
            /\ values[j].from = values[k].to /\ values[j].to = values[k].from)
                => JsEquals(values[j].distance, values[k].distance)

\* C20: after the load of a route file, each of its waypoints that had no
\* index (undefined or null) has its place in the array, counted from 1, as
\* its index, and each other waypoint has the index it had.
C20_IndexAssignedOnLoad ==
    calls = <<"loadRouteJSON">> =>
        /\ Len(GetWaypoints(values[1])) = Len(GetWaypoints(args))
        /\ \A k \in 1..Len(GetWaypoints(args)) :
              LET before == GetWaypoints(args)[k].index
                  after == GetWaypoints(values[1])[k].index
              IN IF before = Undefined \/ before = JsonNull
                 THEN after = k
                 ELSE after = before

C20_Witness ==
    /\ calls = <<"loadRouteJSON">>
    /\ Len(GetWaypoints(args)) = 3
    /\ GetWaypoints(args)[1].index = 0
    /\ GetWaypoints(args)[2].index = 7
    /\ GetWaypoints(args)[3].index = JsonNull
    /\ GetWaypoints(values[1])[1].index = 0
    /\ GetWaypoints(values[1])[2].index = 7
    /\ GetWaypoints(values[1])[3].index = 3

\* The selected route has a waypoint at the pixel position.
RouteHasWaypointAt(position) ==
    \E k \in 1..Len(arr[routeRef]) :
        /\ heap[arr[routeRef][k]].imageX = position.x
        /\ heap[arr[routeRef][k]].imageY = position.y

\* C21: after a dragend whose conversion to pixels succeeded, the selected
\* route's array has a waypoint at the rounded pixel position of the drop,
\* whatever was added, deleted and optimized before.
C21_DragPersisted ==
    lastDrop # Null => RouteHasWaypointAt(lastDrop)

\* C24: a marker has its dragging enabled only if it is of the selected route
\* and the action chosen is 'move'; the markers displayAllRoutes makes anew
\* after a load, an add or a delete are not draggable while the action is
\* 'add', 'delete' or none.
C24_DraggableOnlyWhenMoving ==
    \A m \in 1..Len(waypointMarkers) :
        waypointMarkers[m].dragging =>
            /\ waypointMarkers[m].ofSelected
            /\ selectedActionButton = "move"

\* C23: no two waypoints of a loaded route have the same index; here right
\* after the load of the route file.
C23_IndexesDistinct ==
    calls = <<"loadRouteJSON">> =>
        \A j, k \in 1..Len(GetWaypoints(values[1])) :
            j # k => GetWaypoints(values[1])[j].index # GetWaypoints(values[1])[k].index

\* The number of waypoints the array has at the pixel position.
WaypointsAt(h, ids, position) ==
    Cardinality({k \in 1..Len(ids) : /\ h[ids[k]].imageX = position.x
                                     /\ h[ids[k]].imageY = position.y})

\* C26: a click on the map with the add action at the place of a loaded GPS
\* point (here the start point of the route, 0 m away) adds no waypoint: the
\* route has no more waypoints at that place after the click than before.
C26_NoWaypointOnGPSPoint ==
    [][(pc = "idle" /\ handler' = "add" /\ overlayLoaded /\ startPoint # Null) =>
          LET place == ConvertMapToImageCoordinates(overlayLoaded, startPoint.latitude,
                                                    startPoint.longitude)
          IN WaypointsAt(heap', arr'[routeRef'], place)
                 <= WaypointsAt(heap, arr[routeRef], place)]_vars

\* C27: with GPS points loaded, the validation of a route file whose start
\* or end point is none of the loaded GPS points gives isValid false and a
\* warning that names the missing point.
C27_MissingPointReported ==
    (calls = <<"validateRouteJSON">> /\ args.gpsData.gpsMarkers # {}) =>
        /\ (args.routeData.startPoint \notin args.gpsData.gpsMarkers \cup {""}) =>
               /\ ~values[1].isValid
               /\ \E k \in 1..Len(values[1].warnings) :
                     values[1].warnings[k] = Warning("startPoint", args.routeData.startPoint)
        /\ (args.routeData.endPoint \notin args.gpsData.gpsMarkers \cup {""}) =>
               /\ ~values[1].isValid
               /\ \E k \in 1..Len(values[1].warnings) :
                     values[1].warnings[k] = Warning("endPoint", args.routeData.endPoint)

\* C25: when the file of saveSelectedRoute was written (not cancelled, no
\* write error), saveSelectedRoute returns success and the route's isEdited
\* is false afterwards.
C25_SavedRouteNotEdited ==
    (calls # <<>> /\ calls[Len(calls)] = "saveSelectedRoute"
        /\ values[Len(values)].file = "written") =>
        /\ values[Len(values)].success
        /\ ~args.isEdited

\* C28 as stated: whatever the order the reads complete in, loadedRoutes
\* never holds two routes with the same (startPoint, endPoint) pair nor a
\* route whose start is its end.
C28_NoDuplicateRoutes ==
    /\ \A j, k \in 1..Len(values.loadedRoutes) :
          j # k => args[values.loadedRoutes[j]] # args[values.loadedRoutes[k]]
    /\ \A k \in 1..Len(values.loadedRoutes) :
          args[values.loadedRoutes[k]].startPoint # args[values.loadedRoutes[k]].endPoint

\* The file names both a start and an end point.
NamesBoth(routeData) == routeData.startPoint # "" /\ routeData.endPoint # ""

\* C28, amended: whatever the order the reads complete in, loadedRoutes never
\* holds two routes that name both points and have the same (startPoint,
\* endPoint) pair, nor a route that names both and whose start is its end;
\* every file whose read completed is either stored or among the errors, and
\* a file is among the errors only if it names both points and its start is
\* its end or a route stored another file's read has its pair.
C28_NoDuplicateNamedRoutes ==
    /\ \A j, k \in 1..Len(values.loadedRoutes) :
          (j # k /\ NamesBoth(args[values.loadedRoutes[j]])) =>
              args[values.loadedRoutes[j]] # args[values.loadedRoutes[k]]
    /\ \A k \in 1..Len(values.loadedRoutes) :
          NamesBoth(args[values.loadedRoutes[k]]) =>
              args[values.loadedRoutes[k]].startPoint # args[values.loadedRoutes[k]].endPoint
    /\ \A k \in 1..Len(calls) :
          (\E j \in 1..Len(values.loadedRoutes) : values.loadedRoutes[j] = calls[k])
              # (\E j \in 1..Len(values.errors) : values.errors[j] = calls[k])
    /\ \A k \in 1..Len(values.errors) :
          LET rejected == args[values.errors[k]]
          IN /\ NamesBoth(rejected)
             /\ \/ rejected.startPoint = rejected.endPoint
                \/ \E j \in 1..Len(values.loadedRoutes) :
                      /\ values.loadedRoutes[j] # values.errors[k]
                      /\ args[values.loadedRoutes[j]] = rejected

\* Three reads completed and the call returned: the file whose read completed
\* last has the pair of a stored route and is among the errors, not stored.
C28_Witness ==
    /\ values.returned
    /\ Len(calls) = 3
    /\ Len(values.errors) = 1
    /\ values.errors[1] = calls[3]
    /\ args[calls[3]].startPoint # args[calls[3]].endPoint
    /\ \E j \in 1..Len(values.loadedRoutes) :
          /\ j > 1
          /\ args[values.loadedRoutes[j]] = args[calls[3]]

\* C22: once applyImageAdjustment has applied a centre and a scale, a later
\* moveImageToPosition to that centre gives the image the bounds
\* applyImageAdjustment gave it, whatever the zoom of the map did in between.
C22_FootprintIndependentOfZoom ==
    (values # <<>> /\ calls[Len(calls)] = "moveImageToPosition"
        /\ args.centerMarker = values[1].center) =>
        args.imageBounds = values[1].bounds

\* The waypoints of the array in their order: pixel position and index.
OrderOf(h, ids) ==
    [k \in 1..Len(ids) |-> [imageX |-> h[ids[k]].imageX, imageY |-> h[ids[k]].imageY,
                            index |-> h[ids[k]].index]]

\* C29: the automatic optimization that runs right after a manual optimize
\* applies optimizeWaypointOrder to the order the manual one returned, with
\* the same start and end, and leaves the route in that order, ties included.
C29_ReoptimizationKeepsOrder ==
    (pc = "done" /\ handler = "optimize" /\ orderRef # "none") =>
        OrderOf(heap, arr[routeRef]) = OrderOf(heap, arr[orderRef])

\* The automatic optimization replaced the array of a manually optimized
\* route of three waypoints, two of them at different places equally far
\* from the start point.
C29_Witness ==
    /\ pc = "done"
    /\ handler = "optimize"
    /\ orderRef # "none"
    /\ routeRef = "order2"
    /\ Len(arr[routeRef]) = 3
    /\ \E j, k \in 1..Len(arr[routeRef]) :
          LET latJ == Bounds.north - heap[arr[routeRef][j]].imageY
              latK == Bounds.north - heap[arr[routeRef][k]].imageY
          IN /\ latJ # latK
             /\ Abs(latJ - startPoint.latitude) = Abs(latK - startPoint.latitude)

====
